---- MODULE Spec2Model ----
(***************************************************************************)
(* Transactional outbox relay and idempotent event consumption of          *)
(* hexagolab: the outbox store adapters, the relay workers (the registry   *)
(* typed relayer.Worker and the user-domain OutboxWorker with in-pass      *)
(* retries and a push channel) and the domain consumer's create handler.   *)
(***************************************************************************)
EXTENDS Integers, Sequences, FiniteSets, TLC

(***************************************************************************)
(* Bounds of the model.                                                    *)
(***************************************************************************)
\* number of outbox events the write side produces in one behaviour
MaxEvents == 2
\* cfg.OutboxLimit handed to FetchPendingOutbox (10 in config.go)
BatchSize == 1
PassBatch == 2
\* capacity of OutboxWorker.ch (100 in NewOutboxWorker)
QueueCap == 1
\* largest limit a direct caller hands to FetchPendingOutbox
MaxLimit == 2
\* number of uuid.New() user ids drawn in one behaviour of the consumer
MaxUsers == 3
\* Subscribers of the in-process bus
MaxSubscribers == 2
\* Publish calls on the in-process bus
MaxPublish == 2
\* Largest bufferSize a subscriber asks for
MaxBuffer == 2
\* Messages produced on the consumer's transport
MaxMessages == 3

(***************************************************************************)
(* Program constants.                                                      *)
(***************************************************************************)
\* const maxRetries = 3 in OutboxWorker.publishAndMark
maxRetries == 3
\* sharedUtils.Retry(ctx, 3, ...) around repo.GetByID in UserService.GetUser
getRetries == 3

\* The outbox adapters: OutboxRepoSQLite / OutboxRepoMongoDB ("sqlite": flag
\* on success, ORDER BY created_at, payload read into interface{}),
\* OutboxRepoPostgres / UserRepoSQLite ("postgres": the same, payload read
\* into map[string]interface{}), InMemoryUserRepo / InMemoryTaskRepo
\* ("memory": a slice in insertion order, delete on success).
StoreKinds == {"sqlite", "postgres", "memory"}

\* relayer.Worker (registry, one publish attempt) and the user-domain
\* OutboxWorker (no registry, maxRetries attempts, push channel).
WorkerKinds == {"relayer", "user"}

\* The polling goroutine and the channel-draining goroutine of Start.
Loops == {"poll", "push", "poll2"}

\* Event types the write side stores; "unregistered.event" is the type of
\* TestOutboxWorker_ProcessBatch_UnknownEventType.
EventTypes == {"user.created", "user.deleted", "unregistered.event"}

\* Keys of the merged registry: userDomain.NewEventRegistry and
\* taskDomain.NewEventRegistry.
eventRegistry ==
    {"user.created", "user.updated", "user.deleted",
     "task.created", "task.updated", "task.deleted"}

\* JSON shape of OutboxEvent.Payload as the services write it: the entity for
\* created/updated, the bare uuid for user.deleted (Payload: id).
PayloadShape(eventType) ==
    IF eventType = "user.deleted" THEN "string" ELSE "object"

\* A decode that accepts any JSON value into the target.
DecodesAnyValue(eventType) == TRUE

\* json.Unmarshal(payloadBytes, reflect.New(metadata.Type)): the registry
\* target of every user event is the User struct, which a JSON string does
\* not decode into.
DecodesIntoTarget(eventType) == PayloadShape(eventType) = "object"

EventIds == 1..MaxEvents

VARIABLES
    storeKind,   \* which outbox adapter the worker is wired to
    workerKind,  \* which worker implementation runs
    clock,       \* time.Now() of the write side; also the next event id
    inflight,    \* events built by a service call, repository call pending
    outbox,      \* the outbox table / Outbox slice, in insertion order
    brokerUp,    \* whether Publisher.Publish currently succeeds
    dbUp,        \* whether the database currently answers
    ch,          \* OutboxWorker.ch
    pc,          \* per loop: "idle", "proc" (publishAndMark), "mark"
    queue,       \* per loop: events of the current pass still to process
    attempts,    \* per loop: publish attempts on the current event (i)
    lastCall,    \* per loop: its last Publish / MarkOutboxProcessed call or skip
    pubCalled,   \* ids Publish was called for
    pubOk,       \* ids Publish returned nil for
    markCalls,   \* per id: MarkOutboxProcessed calls: 0, 1, or 2 for "more"
    markedOk,    \* ids MarkOutboxProcessed returned nil for
    enqueued,    \* ids Enqueue was called for
    stored       \* the events a repository call has stored

VARIABLES
    lastFetch,   \* a direct caller's last FetchPendingOutbox call and result
    lastMark     \* a direct caller's last MarkOutboxProcessed call and result

VARIABLES
    tx,          \* the open transaction of a repository write, or NoTx
    lastWrite    \* the last repository write that returned, with its result

VARIABLES
    craw,        \* per dispatch: the message value HandleMessage received
    eventBus,    \* the InMemoryEventBus and its distribute goroutines
    cancelled    \* the worker's context has been cancelled

VARIABLES
    adapter,     \* the consumer's receive loop and the transport it reads
    kafka,       \* the kafka.Writer's topic and the last Publish call on it
    cache,       \* the read cache, its requests and their refresh goroutines
    wiring       \* main's position in the wiring code

moreVars == <<adapter, kafka, cache, wiring>>

extVars == <<craw, eventBus, cancelled, moreVars>>

auxVars == <<tx, lastWrite, extVars>>

clientVars == <<lastFetch, lastMark, auxVars>>

VARIABLES
    users,       \* the write-side users table / Users map: [id, email, origin]
    bus,         \* user.created events on the transport (redelivery allowed)
    nextUid,     \* the next value uuid.New() returns
    cpc,         \* per dispatch: "idle", "lookup", "create", "done"
    cmsg,        \* per dispatch: the event HandleMessage was called with
    ctries,      \* per dispatch: repo.GetByID attempts made by GetUser
    cout,        \* per dispatch: how withContext ended
    cprior,      \* per dispatch: the same event had been handled before
    handled      \* identities of the events whose dispatch has finished

consVars == <<users, bus, nextUid, cpc, cmsg, ctries, cout, cprior, handled>>

vars ==
    <<storeKind, workerKind, clock, inflight, outbox, brokerUp, dbUp, ch, pc,
      queue, attempts, lastCall, pubCalled, pubOk, markCalls, markedOk,
      enqueued, stored, clientVars, consVars>>

storeVars == <<outbox, stored>>
envVars == <<brokerUp, dbUp>>
writeVars == <<clock, inflight>>
loopVars == <<pc, queue, attempts>>
histVars == <<lastCall, pubCalled, pubOk, markCalls, markedOk>>
relayVars ==
    <<clock, inflight, outbox, brokerUp, dbUp, ch, pc, queue, attempts,
      lastCall, pubCalled, pubOk, markCalls, markedOk, enqueued, stored,
      clientVars>>

(***************************************************************************)
(* Outbox store adapters.                                                  *)
(***************************************************************************)
Rows(ob) == {ob[i] : i \in DOMAIN ob}

Ids(s) == {s[i].id : i \in DOMAIN s}

\* A fetch that ignores its limit.
TakeAll(s, n) == s

Take(s, n) == SubSeq(s, 1, IF n < Len(s) THEN n ELSE Len(s))

\* ORDER BY created_at
RECURSIVE OrderByCreatedAt(_)
OrderByCreatedAt(S) ==
    IF S = {} THEN <<>>
    ELSE LET first == CHOOSE r \in S : \A q \in S : r.createdAt <= q.createdAt
         IN  <<first>> \o OrderByCreatedAt(S \ {first})

\* A fetch whose query has lost its processed filter.
SelectAnyRow(kind, ob, limit) ==
    IF kind = "memory" THEN Take(ob, limit)
    ELSE Take(OrderByCreatedAt(Rows(ob)), limit)

\* The rows the query of FetchPendingOutbox selects.
\* SQL / Mongo: WHERE processed = 0 ORDER BY created_at LIMIT ?.
\* In memory: r.Outbox[:limit].
SelectPending(kind, ob, limit) ==
    IF kind = "memory"
    THEN Take(ob, limit)
    ELSE Take(OrderByCreatedAt({r \in Rows(ob) : ~r.processed}), limit)

\* FetchPendingOutbox(ctx, limit): the query fails when the database is down;
\* OutboxRepoPostgres fails the whole fetch when a selected payload is not a
\* JSON object.
FetchPendingOutbox(kind, ob, up, limit) ==
    LET rows == SelectPending(kind, ob, limit) IN
    IF kind # "memory" /\ ~up
    THEN [err |-> TRUE, events |-> <<>>]
    ELSE IF kind = "postgres"
            /\ \E i \in DOMAIN rows : PayloadShape(rows[i].eventType) # "object"
    THEN [err |-> TRUE, events |-> <<>>]
    ELSE [err |-> FALSE, events |-> rows]

RemoveAt(s, i) == SubSeq(s, 1, i - 1) \o SubSeq(s, i + 1, Len(s))

\* MarkOutboxProcessed(ctx, id).
\* SQL / Mongo: UPDATE outbox SET processed = 1 WHERE id = ?, an error when no
\* row matched.  In memory: the first slice element with that id is removed,
\* an error when there is none.
\* A flag store that counts the rows the UPDATE changed: a row that is
\* already processed is reported like a missing one.
MarkChangedRows(kind, ob, up, id) ==
    LET hits == {i \in DOMAIN ob : ob[i].id = id /\ ~ob[i].processed} IN
    IF kind # "memory" /\ ~up THEN [err |-> TRUE, outbox |-> ob]
    ELSE IF hits = {} THEN [err |-> TRUE, outbox |-> ob]
    ELSE IF kind = "memory"
    THEN [err |-> FALSE,
          outbox |-> RemoveAt(ob, CHOOSE i \in hits : \A j \in hits : i <= j)]
    ELSE [err |-> FALSE,
          outbox |-> [i \in DOMAIN ob |->
                         IF i \in hits THEN [ob[i] EXCEPT !.processed = TRUE]
                         ELSE ob[i]]]

MarkOutboxProcessed(kind, ob, up, id) ==
    LET hits == {i \in DOMAIN ob : ob[i].id = id} IN
    IF kind # "memory" /\ ~up THEN [err |-> TRUE, outbox |-> ob]
    ELSE IF hits = {} THEN [err |-> TRUE, outbox |-> ob]
    ELSE IF kind = "memory"
    THEN [err |-> FALSE,
          outbox |-> RemoveAt(ob, CHOOSE i \in hits : \A j \in hits : i <= j)]
    ELSE [err |-> FALSE,
          outbox |-> [i \in DOMAIN ob |->
                        IF i \in hits THEN [ob[i] EXCEPT !.processed = TRUE]
                        ELSE ob[i]]]

\* An event is Pending while the store holds it with processed = false;
\* "absent or processed = true" is the terminal state.
IsPending(id) == \E i \in DOMAIN outbox : outbox[i].id = id /\ ~outbox[i].processed

(***************************************************************************)
(* Initial state.                                                          *)
(***************************************************************************)
NoCall == [op |-> "none", id |-> 0, ok |-> TRUE, n |-> 0]

Dispatches == {"d1", "d2"}

\* A kafka.Message not yet built.
NoMessage == [key |-> <<>>, value |-> "none"]

\* An empty topic and no Publish call yet.
NoKafka ==
    [topic |-> <<>>,
     last |-> [called |-> FALSE, event |-> [kind |-> "none", id |-> 0],
               writeErr |-> "nil", ret |-> "nil", msg |-> NoMessage]]

Requests == {"r1", "r2"}

\* An empty cache that answers, and no request made.
NoCache ==
    [up |-> TRUE, held |-> {}, tasks |-> {}, writes |-> [id \in 1..MaxUsers |-> "none"],
     upd |-> [called |-> FALSE, absent |-> FALSE, err |-> "none"],
     req |-> [r \in Requests |->
                [pc |-> "idle", id |-> 0, absent |-> FALSE, ctxDone |-> FALSE, served |-> FALSE,
                 refreshed |-> FALSE, tries |-> 0, lastErr |-> "none",
                 ret |-> "none"]]]

\* main before the outbox worker section: eventRegistry := make(map...).
NoWiring ==
    [pc |-> "mergeUser", local |-> FALSE, started |-> 0, registry |-> {},
     looked |-> {}]

Emails == {"ana", "bob"}

NoMsg == [id |-> 0, email |-> "none"]

\* NewInMemoryEventBus(topic): no subscribers, nothing published.
NewInMemoryEventBus == [subscribers |-> <<>>, goroutines |-> {}, published |-> 0]

\* The receive loop before Start: no goroutine, nothing on the transport.
\* kind: which loop Start launched; pc: "off", "read", "handle", "exited";
\* inbox: messages waiting on the transport; sent: messages produced so far;
\* cur: the message handed to HandleMessage; stuck: its downstream call does
\* not answer; handed / late / failed: the messages handed to the handler,
\* those handed after the cancellation, and those whose action timed out;
\* erred: ReadMessage has returned a transient error.
NoAdapter ==
    [kind |-> "none", pc |-> "off", inbox |-> <<>>, sent |-> 0, cur |-> 0,
     stuck |-> FALSE, handed |-> {}, late |-> {}, failed |-> {},
     erred |-> FALSE]

\* No message value: the zero value of the dispatch's payload.
NoRaw ==
    [json |-> "none", type |-> "", data |-> "none", id |-> 0, email |-> "",
     src |-> 0]

NoUser == [id |-> 0, email |-> "none", origin |-> 0]

NoEvent == [id |-> 0, eventType |-> "none", createdAt |-> 0,
            processed |-> FALSE, aggregateId |-> 0]

NoTx == [step |-> "none", op |-> "none", u |-> NoUser, evt |-> NoEvent,
         users |-> {}]

NoWrite == [op |-> "none", u |-> NoUser, evt |-> NoEvent, err |-> "nil",
            usersBefore |-> {}, outboxBefore |-> <<>>, txEnd |-> "none"]

NoFetch == [limit |-> 0, up |-> TRUE, pending |-> {}, err |-> FALSE,
            events |-> <<>>]

NoMark == [id |-> 0, again |-> FALSE, up |-> TRUE, existed |-> FALSE,
           err |-> FALSE, changed |-> FALSE]

Init ==
    /\ storeKind \in StoreKinds
    /\ workerKind \in WorkerKinds
    /\ clock = 1
    /\ inflight = {}
    /\ outbox = <<>>
    /\ brokerUp = TRUE
    /\ dbUp = TRUE
    /\ ch = <<>>
    /\ pc = [l \in Loops |-> "idle"]
    /\ queue = [l \in Loops |-> <<>>]
    /\ attempts = [l \in Loops |-> 0]
    /\ lastCall = [l \in Loops |-> NoCall]
    /\ pubCalled = {}
    /\ pubOk = {}
    /\ markCalls = [e \in EventIds |-> 0]
    /\ markedOk = {}
    /\ enqueued = {}
    /\ stored = {}
    /\ lastFetch = NoFetch
    /\ lastMark = NoMark
    /\ tx = NoTx
    /\ lastWrite = NoWrite
    /\ craw = [d \in Dispatches |-> NoRaw]
    /\ eventBus = NewInMemoryEventBus
    /\ cancelled = FALSE
    /\ adapter = NoAdapter
    /\ kafka = NoKafka
    /\ cache = NoCache
    /\ wiring = NoWiring
    /\ users = {}
    /\ bus = {}
    /\ nextUid = 1
    /\ cpc = [d \in Dispatches |-> "idle"]
    /\ cmsg = [d \in Dispatches |-> NoMsg]
    /\ ctries = [d \in Dispatches |-> 0]
    /\ cout = [d \in Dispatches |-> "none"]
    /\ cprior = [d \in Dispatches |-> FALSE]
    /\ handled = {}

(***************************************************************************)
(* Write side: a service call builds the outbox event (CreatedAt:          *)
(* time.Now()), then the repository stores it with the aggregate.          *)
(***************************************************************************)
\* UserService.CreateUser / DeleteUser up to the repository call.
ServiceBuildEvent(eventType) ==
    /\ clock <= MaxEvents
    /\ inflight' = inflight \cup
          {[id |-> clock, eventType |-> eventType, createdAt |-> clock,
            processed |-> FALSE, aggregateId |-> 1]}
    /\ clock' = clock + 1
    /\ UNCHANGED <<consVars, clientVars, storeKind, workerKind, storeVars, envVars, ch, loopVars,
                   histVars, enqueued>>

\* repo.Create / DeleteByID: the event is appended / inserted; with the
\* database down the transaction fails and nothing is stored.
RepoStore(evt) ==
    /\ evt \in inflight
    /\ inflight' = inflight \ {evt}
    /\ IF storeKind # "memory" /\ ~dbUp
       THEN UNCHANGED <<outbox, stored>>
       ELSE /\ outbox' = Append(outbox, evt)
            /\ stored' = stored \cup {evt}
    /\ UNCHANGED <<consVars, clientVars, storeKind, workerKind, clock, envVars, ch, loopVars,
                   histVars, enqueued>>

\* OutboxWorker.Enqueue(evt), called once an event has been saved: a
\* non-blocking send, the event is dropped from this path when ch is full.
Enqueue(evt) ==
    /\ workerKind = "user"
    /\ evt \in Rows(outbox)
    /\ evt.id \notin enqueued
    /\ enqueued' = enqueued \cup {evt.id}
    /\ ch' = IF Len(ch) < QueueCap THEN Append(ch, evt) ELSE ch
    /\ UNCHANGED <<consVars, clientVars, storeKind, workerKind, storeVars, envVars, writeVars,
                   loopVars, histVars>>

(***************************************************************************)
(* Environment: broker and database outages.                               *)
(***************************************************************************)
BrokerDown ==
    /\ brokerUp
    /\ brokerUp' = FALSE
    /\ UNCHANGED <<consVars, clientVars, storeKind, workerKind, storeVars, dbUp, writeVars, ch,
                   loopVars, histVars, enqueued>>

BrokerRecover ==
    /\ ~brokerUp
    /\ brokerUp' = TRUE
    /\ UNCHANGED <<consVars, clientVars, storeKind, workerKind, storeVars, dbUp, writeVars, ch,
                   loopVars, histVars, enqueued>>

DbDown ==
    /\ storeKind # "memory"
    /\ dbUp
    /\ dbUp' = FALSE
    /\ UNCHANGED <<consVars, clientVars, storeKind, workerKind, storeVars, brokerUp, writeVars, ch,
                   loopVars, histVars, enqueued>>

DbRecover ==
    /\ ~dbUp
    /\ dbUp' = TRUE
    /\ UNCHANGED <<consVars, clientVars, storeKind, workerKind, storeVars, brokerUp, writeVars, ch,
                   loopVars, histVars, enqueued>>

(***************************************************************************)
(* Relay worker.                                                           *)
(***************************************************************************)
Cur(l) == Head(queue[l])

\* QueryContext / ExecContext with the worker's ctx: an error when the
\* database is down or the context is cancelled (the in-memory store
\* ignores both).
CtxUp == dbUp /\ ~cancelled

Bump(n) == IF n < 2 THEN n + 1 ELSE 2

\* Loop l records a publisher / repository call.
Record(l, call) == lastCall' = [lastCall EXCEPT ![l] = call]

\* A range loop that leaves the pass after its first event.
LeavePass(l) ==
    /\ queue' = [queue EXCEPT ![l] = <<>>]
    /\ attempts' = [attempts EXCEPT ![l] = 0]
    /\ pc' = [pc EXCEPT ![l] = "idle"]

\* publishAndMark returned: the loop goes on with the next event of the pass,
\* or back to its select.
NextEvent(l) ==
    /\ queue' = [queue EXCEPT ![l] = Tail(queue[l])]
    /\ attempts' = [attempts EXCEPT ![l] = 0]
    /\ pc' = [pc EXCEPT ![l] = IF Len(queue[l]) > 1 THEN "proc" ELSE "idle"]

\* Publish attempts one processing pass makes for an event: maxRetries in
\* OutboxWorker, a single call in relayer.Worker.
PublishBudget == IF workerKind = "user" THEN maxRetries ELSE 1

\* A polling loop that gives up for good when a fetch fails.
ExitsOnFetchError(res) ==
    IF res.err THEN "exited"
    ELSE IF res.events = <<>> THEN "idle" ELSE "proc"

\* Where ProcessBatch leaves the loop after the fetch: on an error (the store
\* then hands over no rows) or an empty result it returns to Start's select,
\* else it ranges over the rows.
AfterFetch(res) == IF res.events = <<>> THEN "idle" ELSE "proc"

\* ProcessBatch of a worker built with batchSize n: the pending events of
\* this pass are fetched and ranged over; on a fetch error it logs and
\* returns.  With seen, the call and its result are kept in lastFetch.
FetchPass(n, seen) ==
    LET res == FetchPendingOutbox(storeKind, outbox, CtxUp, n) IN
    /\ pc["poll"] = "idle"
    /\ queue' = [queue EXCEPT !["poll"] = res.events]
    /\ attempts' = [attempts EXCEPT !["poll"] = 0]
    /\ pc' = [pc EXCEPT !["poll"] = AfterFetch(res)]
    /\ lastFetch' = IF seen
                    THEN [limit |-> n, up |-> CtxUp,
                          pending |-> {id \in EventIds : IsPending(id)},
                          err |-> res.err, events |-> res.events]
                    ELSE lastFetch
    /\ UNCHANGED <<consVars, lastMark, auxVars, storeKind, workerKind, storeVars, envVars,
                   writeVars, ch, histVars, enqueued>>

ProcessBatch(n) == FetchPass(n, FALSE)

\* case <-ticker.C: ProcessBatch fetches the pending events of this pass; on
\* a fetch error it logs and returns.
Tick == ProcessBatch(BatchSize)

\* case <-ticker.C in a second relayer.Worker started on the same store.
TickSecond ==
    LET res == FetchPendingOutbox(storeKind, outbox, CtxUp, BatchSize) IN
    /\ workerKind = "relayer"
    /\ pc["poll2"] = "idle"
    /\ queue' = [queue EXCEPT !["poll2"] = res.events]
    /\ attempts' = [attempts EXCEPT !["poll2"] = 0]
    /\ pc' = [pc EXCEPT !["poll2"] = IF res.events = <<>> THEN "idle" ELSE "proc"]
    /\ UNCHANGED <<consVars, clientVars, storeKind, workerKind, storeVars, envVars, writeVars, ch,
                   histVars, enqueued>>

\* case evt := <-w.ch: the push loop of OutboxWorker.Start takes one event.
Receive ==
    /\ workerKind = "user"
    /\ pc["push"] = "idle"
    /\ ch # <<>>
    /\ ch' = Tail(ch)
    /\ queue' = [queue EXCEPT !["push"] = <<Head(ch)>>]
    /\ attempts' = [attempts EXCEPT !["push"] = 0]
    /\ pc' = [pc EXCEPT !["push"] = "proc"]
    /\ UNCHANGED <<consVars, clientVars, storeKind, workerKind, storeVars, envVars, writeVars,
                   histVars, enqueued>>

\* The registry miss handled the other way: the event goes on to be marked
\* processed so that it is not fetched again.
SkipUnknownTypeAndMark(l) ==
    /\ pc[l] = "proc"
    /\ workerKind = "relayer"
    /\ Cur(l).eventType \notin eventRegistry
    /\ Record(l, [op |-> "skip", id |-> Cur(l).id, ok |-> FALSE, n |-> 0])
    /\ pc' = [pc EXCEPT ![l] = "mark"]
    /\ UNCHANGED <<consVars, clientVars, storeKind, workerKind, storeVars, envVars, writeVars, ch,
                   queue, attempts, pubCalled, pubOk, markCalls, markedOk,
                   enqueued>>

\* relayer.Worker.publishAndMark: metadata, ok := w.eventRegistry[evt.EventType];
\* if !ok { log; return }.
SkipUnknownType(l) ==
    /\ pc[l] = "proc"
    /\ workerKind = "relayer"
    /\ Cur(l).eventType \notin eventRegistry
    /\ Record(l, [op |-> "skip", id |-> Cur(l).id, ok |-> FALSE, n |-> 0])
    /\ NextEvent(l)
    /\ UNCHANGED <<consVars, clientVars, storeKind, workerKind, storeVars, envVars, writeVars, ch,
                   pubCalled, pubOk, markCalls, markedOk, enqueued>>

\* A decode failure that is logged without the return: the pass falls
\* through to MarkOutboxProcessed.
DecodeErrorFallsThrough(l) ==
    /\ pc[l] = "proc"
    /\ workerKind = "relayer"
    /\ Cur(l).eventType \in eventRegistry
    /\ ~DecodesIntoTarget(Cur(l).eventType)
    /\ Record(l, [op |-> "skip", id |-> Cur(l).id, ok |-> FALSE, n |-> 0])
    /\ pc' = [pc EXCEPT ![l] = "mark"]
    /\ UNCHANGED <<consVars, clientVars, storeKind, workerKind, storeVars, envVars, writeVars, ch,
                   queue, attempts, pubCalled, pubOk, markCalls, markedOk,
                   enqueued>>

\* relayer.Worker.publishAndMark: json.Unmarshal into the registry's target
\* fails; log and return.
SkipUndecodable(l) ==
    /\ pc[l] = "proc"
    /\ workerKind = "relayer"
    /\ Cur(l).eventType \in eventRegistry
    /\ ~DecodesIntoTarget(Cur(l).eventType)
    /\ Record(l, [op |-> "skip", id |-> Cur(l).id, ok |-> FALSE, n |-> 0])
    /\ NextEvent(l)
    /\ UNCHANGED <<consVars, clientVars, storeKind, workerKind, storeVars, envVars, writeVars, ch,
                   pubCalled, pubOk, markCalls, markedOk, enqueued>>

\* The event reaches the Publish call.
Publishable(l) ==
    /\ pc[l] = "proc"
    /\ workerKind = "relayer" =>
          /\ Cur(l).eventType \in eventRegistry
          /\ DecodesIntoTarget(Cur(l).eventType)

\* A retry loop that runs one attempt past its budget.
RetryPastBudget(l, n) ==
    IF n <= PublishBudget
    THEN /\ attempts' = [attempts EXCEPT ![l] = n]
         /\ UNCHANGED <<pc, queue>>
    ELSE NextEvent(l)

\* A publish failure that ends the whole pass instead of the one event.
PublishErrorEndsPass(l, n) ==
    IF n < PublishBudget
    THEN /\ attempts' = [attempts EXCEPT ![l] = n]
         /\ UNCHANGED <<pc, queue>>
    ELSE LeavePass(l)

\* What publishAndMark does after a Publish call that returned an error on
\* attempt n: OutboxWorker sleeps and tries again while n < maxRetries, then
\* logs and returns; relayer.Worker logs and returns at once.
AfterPublishError(l, n) ==
    IF n < PublishBudget
    THEN /\ attempts' = [attempts EXCEPT ![l] = n]
         /\ UNCHANGED <<pc, queue>>
    ELSE NextEvent(l)

\* w.publisher.Publish returned nil: go on to MarkOutboxProcessed.
PublishOk(l) ==
    /\ Publishable(l)
    /\ brokerUp
    /\ Record(l, [op |-> "publish", id |-> Cur(l).id, ok |-> TRUE,
                  n |-> attempts[l] + 1])
    /\ pubCalled' = pubCalled \cup {Cur(l).id}
    /\ pubOk' = pubOk \cup {Cur(l).id}
    /\ attempts' = [attempts EXCEPT ![l] = attempts[l] + 1]
    /\ pc' = [pc EXCEPT ![l] = "mark"]
    /\ UNCHANGED <<consVars, clientVars, storeKind, workerKind, storeVars, envVars, writeVars, ch,
                   queue, markCalls, markedOk, enqueued>>

\* w.publisher.Publish returned an error.
PublishFail(l) ==
    /\ Publishable(l)
    /\ ~brokerUp
    /\ Record(l, [op |-> "publish", id |-> Cur(l).id, ok |-> FALSE,
                  n |-> attempts[l] + 1])
    /\ pubCalled' = pubCalled \cup {Cur(l).id}
    /\ AfterPublishError(l, attempts[l] + 1)
    /\ UNCHANGED <<consVars, clientVars, storeKind, workerKind, storeVars, envVars, writeVars, ch,
                   pubOk, markCalls, markedOk, enqueued>>

\* w.repo.MarkOutboxProcessed(ctx, evt.ID); an error is logged, nothing more.
MarkProcessed(l) ==
    LET id == Cur(l).id
        res == MarkOutboxProcessed(storeKind, outbox, CtxUp, id) IN
    /\ pc[l] = "mark"
    /\ Record(l, [op |-> "mark", id |-> id, ok |-> ~res.err, n |-> 0])
    /\ outbox' = res.outbox
    /\ markCalls' = [markCalls EXCEPT ![id] = Bump(markCalls[id])]
    /\ markedOk' = IF res.err THEN markedOk ELSE markedOk \cup {id}
    /\ NextEvent(l)
    /\ UNCHANGED <<consVars, clientVars, storeKind, workerKind, envVars, writeVars, ch, pubCalled,
                   pubOk, enqueued, stored>>

(***************************************************************************)
(* Write-side user store and the domain consumer's create handler.         *)
(***************************************************************************)
\* repo.GetByID(ctx, id)
GetByID(us, id) == \E u \in us : u.id = id

\* repo.Create(ctx, u, evt).  In memory: ErrUserAlreadyExists when the id is
\* in the Users map.  SQL: the INSERT fails on the primary key or on
\* email TEXT UNIQUE, and the driver's error is returned as it is.
RepoCreate(kind, us, u) ==
    IF kind = "memory"
    THEN IF \E x \in us : x.id = u.id
         THEN [err |-> "exists", users |-> us]
         ELSE [err |-> "nil", users |-> us \cup {u}]
    ELSE IF \E x \in us : x.id = u.id \/ x.email = u.email
         THEN [err |-> "constraint", users |-> us]
         ELSE [err |-> "nil", users |-> us \cup {u}]

\* The id UserService.CreateUser gives the entity it builds: uuid.New().
NewUserId(evtId) == nextUid

\* How withContext ends for the error the action returned: nil and
\* ErrUserAlreadyExists are logged as handled, anything else as a failure.
Outcome(err) ==
    IF err = "nil" THEN "created"
    ELSE IF err = "exists" THEN "exists"
    ELSE "failed"

\* The entities the store holds for a create event: the one with the
\* event's identity and the ones built while handling it.
EntitiesOf(evtId) == {u \in users : u.id = evtId \/ u.origin = evtId}

\* POST /users: UserService.CreateUser stores a new user with its outbox
\* event, which the relay later publishes with the user's id.
HttpCreateUser(email) ==
    LET u == [id |-> nextUid, email |-> email, origin |-> nextUid]
        res == RepoCreate(storeKind, users, u) IN
    /\ nextUid <= MaxUsers
    /\ nextUid' = nextUid + 1
    /\ users' = res.users
    /\ bus' = IF res.err = "nil" THEN bus \cup {[id |-> u.id, email |-> email]}
              ELSE bus
    /\ UNCHANGED <<storeKind, workerKind, relayVars, cpc, cmsg, ctries, cout,
                   cprior, handled>>

\* A user.created event for a user this store does not hold: the simulated
\* event main publishes, or one written by another instance.
ForeignCreateEvent(email) ==
    /\ nextUid <= MaxUsers
    /\ nextUid' = nextUid + 1
    /\ bus' = bus \cup {[id |-> nextUid, email |-> email]}
    /\ UNCHANGED <<storeKind, workerKind, relayVars, users, cpc, cmsg, ctries,
                   cout, cprior, handled>>

\* HandleMessage(ctx, key, payload) with a well-formed user.created envelope:
\* the UserCreated case enters withContext.
HandleMessage(d, m) ==
    /\ cpc[d] = "idle"
    /\ m \in bus
    /\ cpc' = [cpc EXCEPT ![d] = "lookup"]
    /\ cmsg' = [cmsg EXCEPT ![d] = m]
    /\ ctries' = [ctries EXCEPT ![d] = 0]
    /\ cout' = [cout EXCEPT ![d] = "none"]
    /\ cprior' = [cprior EXCEPT ![d] = m.id \in handled]
    /\ UNCHANGED <<storeKind, workerKind, relayVars, users, bus, nextUid,
                   handled>>

\* c.service.GetUser(ctxUser, evt.ID): one repo.GetByID attempt of the retry
\* loop.  Found: the event is a duplicate, the action returns nil.  Not found
\* after the last attempt: the handler goes on to CreateUser.
GetUser(d) ==
    /\ cpc[d] = "lookup"
    /\ IF GetByID(users, cmsg[d].id)
       THEN /\ cpc' = [cpc EXCEPT ![d] = "done"]
            /\ cout' = [cout EXCEPT ![d] = "duplicate"]
            /\ handled' = handled \cup {cmsg[d].id}
            /\ UNCHANGED ctries
       ELSE /\ ctries' = [ctries EXCEPT ![d] = ctries[d] + 1]
            /\ cpc' = [cpc EXCEPT ![d] =
                         IF ctries[d] + 1 < getRetries THEN "lookup" ELSE "create"]
            /\ UNCHANGED <<cout, handled>>
    /\ UNCHANGED <<storeKind, workerKind, relayVars, users, bus, nextUid, cmsg,
                   cprior>>

\* c.service.CreateUser(ctxUser, evt.Email, evt.Nombre, evt.BirthDate): the
\* service builds a user with a new id and stores it.
CreateUser(d) ==
    LET u == [id |-> NewUserId(cmsg[d].id), email |-> cmsg[d].email,
              origin |-> cmsg[d].id]
        res == RepoCreate(storeKind, users, u) IN
    /\ cpc[d] = "create"
    /\ nextUid <= MaxUsers
    /\ nextUid' = nextUid + 1
    /\ users' = res.users
    /\ cout' = [cout EXCEPT ![d] = Outcome(res.err)]
    /\ cpc' = [cpc EXCEPT ![d] = "done"]
    /\ handled' = handled \cup {cmsg[d].id}
    /\ UNCHANGED <<storeKind, workerKind, relayVars, bus, cmsg, ctries, cprior>>

\* HandleMessage returned; the receive loop hands over the next message.
Return(d) ==
    /\ cpc[d] = "done"
    /\ cpc' = [cpc EXCEPT ![d] = "idle"]
    /\ cmsg' = [cmsg EXCEPT ![d] = NoMsg]
    /\ ctries' = [ctries EXCEPT ![d] = 0]
    /\ cout' = [cout EXCEPT ![d] = "none"]
    /\ cprior' = [cprior EXCEPT ![d] = FALSE]
    /\ UNCHANGED <<storeKind, workerKind, relayVars, users, bus, nextUid,
                   handled>>

ConsumerInit == Init /\ workerKind = "relayer"

ConsumerNext ==
    \/ \E email \in Emails : HttpCreateUser(email)
    \/ \E email \in Emails : ForeignCreateEvent(email)
    \/ \E d \in Dispatches : \E m \in bus : HandleMessage(d, m)
    \/ \E d \in Dispatches : GetUser(d)
    \/ \E d \in Dispatches : CreateUser(d)
    \/ \E d \in Dispatches : Return(d)

ConsumerSpec == ConsumerInit /\ [][ConsumerNext]_vars

(***************************************************************************)
(* Repository writes: Create / Update / DeleteByID store the aggregate     *)
(* mutation and its outbox event in one transaction (SQL) or under one     *)
(* mutex (in memory).                                                      *)
(***************************************************************************)
WriteOps == {"create", "update", "delete"}

\* The event type the service gives the outbox event of a write.
EventTypeOf(op) ==
    IF op = "create" THEN "user.created"
    ELSE IF op = "update" THEN "user.updated"
    ELSE "user.deleted"

\* An update that writes the row whether or not one is there.
RepoUpdateUpserts(kind, us, u) ==
    [err |-> "nil", users |-> {x \in us : x.id # u.id} \cup {u}]

\* An UPDATE that reports success and writes nothing.
RepoUpdateKeepsRow(kind, us, u) == [err |-> "nil", users |-> us]

\* UPDATE users SET email=... WHERE id=? / r.Users[u.ID] = u
RepoUpdate(kind, us, u) ==
    IF ~\E x \in us : x.id = u.id
    THEN [err |-> "notfound", users |-> us]
    ELSE IF kind # "memory" /\ \E x \in us : x.id # u.id /\ x.email = u.email
    THEN [err |-> "constraint", users |-> us]
    ELSE [err |-> "nil", users |-> {x \in us : x.id # u.id} \cup {u}]

\* DELETE FROM users WHERE id=? / delete(r.Users, id)
RepoDeleteByID(kind, us, u) ==
    IF ~\E x \in us : x.id = u.id
    THEN [err |-> "notfound", users |-> us]
    ELSE [err |-> "nil", users |-> {x \in us : x.id # u.id}]

\* The aggregate statement of a write.
RepoApply(op, kind, us, u) ==
    IF op = "create" THEN RepoCreate(kind, us, u)
    ELSE IF op = "update" THEN RepoUpdate(kind, us, u)
    ELSE RepoDeleteByID(kind, us, u)

\* Statements that take effect as they run, outside any transaction.
AbandonKeepsWrites(t, us) == t.users

\* The users table after a write returned without Commit: the statements of
\* the transaction are never committed.
Abandon(t, us) == us

SqlDown == storeKind # "memory" /\ ~dbUp

\* defer func() { if err != nil { tx.Rollback() } }(): the closure reads the
\* err declared with tx.  Only the aggregate ExecContext assigns it (res, err
\* := in Update and DeleteByID; _, err = in the Postgres Create); the SQLite
\* Create and every insertOutboxTx call test an err of their own if
\* statement, and ErrUserNotFound is returned as a value.
DeferredRollbackRuns(kind, op, step, err) ==
    /\ step = "aggregate"
    /\ err # "notfound"
    /\ op = "create" => kind = "postgres"

\* How the transaction of a write stands when the method returns err: none
\* was begun (the in-memory store, a failed BeginTx), Commit was called,
\* Rollback was called, or it is still open.
TxEnd(kind, t, err) ==
    IF kind = "memory" \/ t.step = "begin" THEN "none"
    ELSE IF t.step = "commit" THEN "commit"
    ELSE IF DeferredRollbackRuns(kind, t.op, t.step, err) THEN "rollback"
    ELSE "open"

\* The write returns err without having committed.
ReturnError(t, err) ==
    /\ lastWrite' = [op |-> t.op, u |-> t.u, evt |-> t.evt, err |-> err,
                     usersBefore |-> users, outboxBefore |-> outbox,
                     txEnd |-> TxEnd(storeKind, t, err)]
    /\ users' = Abandon(t, users)
    /\ tx' = NoTx
    /\ UNCHANGED <<outbox, stored>>

\* The service builds the outbox event and calls the repository, which
\* begins its transaction: tx, err := r.db.BeginTx(ctx, nil).
RepoBegin(op, id, email) ==
    LET u == [id |-> id, email |-> email, origin |-> id]
        evt == [id |-> clock, eventType |-> EventTypeOf(op),
                createdAt |-> clock, processed |-> FALSE, aggregateId |-> id]
        t == [step |-> "aggregate", op |-> op, u |-> u, evt |-> evt,
              users |-> users] IN
    /\ tx.step = "none"
    /\ clock <= MaxEvents
    /\ clock' = clock + 1
    /\ IF SqlDown
       THEN ReturnError([t EXCEPT !.step = "begin"], "db")
       ELSE /\ tx' = t
            /\ UNCHANGED <<users, outbox, stored, lastWrite>>
    /\ UNCHANGED <<storeKind, workerKind, inflight, envVars, ch, loopVars,
                   histVars, enqueued, lastFetch, lastMark, bus, nextUid, cpc,
                   cmsg, ctries, cout, cprior, handled, extVars>>

\* The INSERT / UPDATE / DELETE on the aggregate table, inside the
\* transaction.
TxAggregate ==
    LET res == RepoApply(tx.op, storeKind, users, tx.u) IN
    /\ tx.step = "aggregate"
    /\ IF SqlDown THEN ReturnError(tx, "db")
       ELSE IF res.err # "nil" THEN ReturnError(tx, res.err)
       ELSE /\ tx' = [tx EXCEPT !.step = "outbox", !.users = res.users]
            /\ UNCHANGED <<users, outbox, stored, lastWrite>>
    /\ UNCHANGED <<storeKind, workerKind, writeVars, envVars, ch, loopVars,
                   histVars, enqueued, lastFetch, lastMark, bus, nextUid, cpc,
                   cmsg, ctries, cout, cprior, handled, extVars>>

\* insertOutboxTx(ctx, tx, evt)
TxOutbox ==
    /\ tx.step = "outbox"
    /\ IF SqlDown THEN ReturnError(tx, "outbox")
       ELSE /\ tx' = [tx EXCEPT !.step = "commit"]
            /\ UNCHANGED <<users, outbox, stored, lastWrite>>
    /\ UNCHANGED <<storeKind, workerKind, writeVars, envVars, ch, loopVars,
                   histVars, enqueued, lastFetch, lastMark, bus, nextUid, cpc,
                   cmsg, ctries, cout, cprior, handled, extVars>>

\* return tx.Commit()
TxCommit ==
    /\ tx.step = "commit"
    /\ IF SqlDown THEN ReturnError(tx, "db")
       ELSE /\ users' = tx.users
            /\ outbox' = Append(outbox, tx.evt)
            /\ stored' = stored \cup {tx.evt}
            /\ lastWrite' = [op |-> tx.op, u |-> tx.u, evt |-> tx.evt,
                             err |-> "nil", usersBefore |-> users,
                             outboxBefore |-> outbox,
                             txEnd |-> TxEnd(storeKind, tx, "nil")]
            /\ tx' = NoTx
    /\ UNCHANGED <<storeKind, workerKind, writeVars, envVars, ch, loopVars,
                   histVars, enqueued, lastFetch, lastMark, bus, nextUid, cpc,
                   cmsg, ctries, cout, cprior, handled, extVars>>

WriteInit == Init /\ workerKind = "relayer"

WriteNext ==
    \/ \E op \in WriteOps : \E id \in 1..MaxUsers : \E email \in Emails :
          RepoBegin(op, id, email)
    \/ TxAggregate
    \/ TxOutbox
    \/ TxCommit
    \/ DbDown
    \/ DbRecover

WriteSpec == WriteInit /\ [][WriteNext]_vars

(***************************************************************************)
(* The transport between the relay and the consumer.  A message value is   *)
(* modelled by what json.Unmarshal can read from it: whether it is a JSON  *)
(* object, its "type" key ("" when absent), whether its "data" key decodes *)
(* into the integration contract, and the entity it carries.               *)
(***************************************************************************)
\* Publisher.Publish: Value: json.Marshal(event).  relayer.Worker passes the
\* value it decoded from the payload (the User struct: id, email, nombre,
\* birth_date, created_at); OutboxWorker passes payloadBytes, a []byte, which
\* json.Marshal encodes as a base64 JSON string.
Serialize(worker, evt) ==
    IF worker = "relayer"
    THEN [json |-> "object", type |-> "", data |-> "none",
          id |-> evt.aggregateId, email |-> "ana", src |-> evt.id]
    ELSE [json |-> "string", type |-> "", data |-> "none",
          id |-> 0, email |-> "", src |-> evt.id]

\* The outbox events a Publish call returned nil for.
Published == {e \in stored : e.id \in pubOk}

\* The message values the relay has written to the transport.
Wire == {Serialize(workerKind, e) : e \in Published}

\* Message values written by other producers: main's simulated
\* IntegrationEvent{Type: UserCreated, Data: ...}, an update event, and the
\* malformed, undecodable and unknown-type values of the consumer's tests.
ForeignRaw ==
    {[json |-> "object", type |-> "user.created", data |-> "user",
      id |-> 1, email |-> "ana", src |-> 0],
     [json |-> "object", type |-> "user.created", data |-> "user",
      id |-> 2, email |-> "bob", src |-> 0],
     [json |-> "object", type |-> "user.updated", data |-> "user",
      id |-> 1, email |-> "bob", src |-> 0],
     [json |-> "object", type |-> "user.created", data |-> "bad",
      id |-> 0, email |-> "", src |-> 0],
     [json |-> "object", type |-> "UnknownType", data |-> "none",
      id |-> 0, email |-> "", src |-> 0],
     [json |-> "malformed", type |-> "", data |-> "none",
      id |-> 0, email |-> "", src |-> 0]}

\* json.Unmarshal(payload, &base) into IntegrationEvent: an error unless the
\* value is a JSON object; an absent "type" key leaves Type == "".
DecodeEnvelope(m) ==
    IF m.json = "object"
    THEN [err |-> FALSE, type |-> m.type]
    ELSE [err |-> TRUE, type |-> ""]

\* The handler called with the zero value when the data does not decode.
DataErrorIgnored(m) == TRUE

\* UnmarshalAndHandle: json.Unmarshal(base.Data, &evt) fails on an absent or
\* ill-typed data key, and the handler is then not called.
DataDecodes(m) == m.data = "user"

\* A switch whose default case is the create handler.
RouteDefaultCreates(m) ==
    IF m.json # "object" THEN "malformed"
    ELSE IF m.type = "user.updated"
         THEN IF DataDecodes(m) THEN "update" ELSE "undecodable"
    ELSE IF m.type = "user.created" /\ ~DataDecodes(m) THEN "undecodable"
    ELSE "create"

\* The switch of HandleMessage.
Route(m) ==
    LET base == DecodeEnvelope(m) IN
    IF base.err THEN "malformed"
    ELSE IF base.type = "user.created"
         THEN IF DataDecodes(m) THEN "create" ELSE "undecodable"
    ELSE IF base.type = "user.updated"
         THEN IF DataDecodes(m) THEN "update" ELSE "undecodable"
    ELSE "unknown"

\* HandleMessage(ctx, key, payload) with any message value: a warning and
\* return for a value that does not route to a handler, withContext for the
\* UserCreated and UserUpdated cases.
ConsumeWire(d, m) ==
    LET r == Route(m)
        evt == [id |-> m.id, email |-> m.email] IN
    /\ cpc[d] = "idle"
    /\ m \in Wire \cup ForeignRaw
    /\ craw' = [craw EXCEPT ![d] = m]
    /\ ctries' = [ctries EXCEPT ![d] = 0]
    /\ IF r = "create"
       THEN /\ cpc' = [cpc EXCEPT ![d] = "lookup"]
            /\ cmsg' = [cmsg EXCEPT ![d] = evt]
            /\ cout' = [cout EXCEPT ![d] = "none"]
            /\ cprior' = [cprior EXCEPT ![d] = m.id \in handled]
       ELSE IF r = "update"
       THEN /\ cpc' = [cpc EXCEPT ![d] = "update"]
            /\ cmsg' = [cmsg EXCEPT ![d] = evt]
            /\ cout' = [cout EXCEPT ![d] = "none"]
            /\ UNCHANGED cprior
       ELSE /\ cpc' = [cpc EXCEPT ![d] = "done"]
            /\ cout' = [cout EXCEPT ![d] = "dropped"]
            /\ UNCHANGED <<cmsg, cprior>>
    /\ UNCHANGED <<storeKind, workerKind, clock, inflight, storeVars, envVars,
                   ch, loopVars, histVars, enqueued, lastFetch, lastMark, tx,
                   lastWrite, eventBus, cancelled, moreVars, users, bus,
                   nextUid, handled>>

\* The UserUpdated action: c.service.GetUser(ctxUser, evt.ID), then
\* c.service.UpdateUser(ctxUser, user) with the event's fields.
UpdateUser(d) ==
    LET cur == CHOOSE x \in users : x.id = cmsg[d].id
        u == [cur EXCEPT !.email = cmsg[d].email]
        res == RepoUpdate(storeKind, users, u) IN
    /\ cpc[d] = "update"
    /\ IF GetByID(users, cmsg[d].id)
       THEN /\ users' = res.users
            /\ cout' = [cout EXCEPT ![d] =
                          IF res.err = "nil" THEN "updated" ELSE "failed"]
       ELSE /\ cout' = [cout EXCEPT ![d] = "failed"]
            /\ UNCHANGED users
    /\ cpc' = [cpc EXCEPT ![d] = "done"]
    /\ UNCHANGED <<storeKind, workerKind, relayVars, bus, nextUid, cmsg,
                   ctries, cprior, handled>>

\* One consumer goroutine reads the transport.
WireDispatches == {"d1"}

WireInit == Init

WireNext ==
    \/ \E t \in {"user.created", "user.deleted"} : ServiceBuildEvent(t)
    \/ \E evt \in inflight : RepoStore(evt)
    \/ Tick
    \/ \E l \in Loops : SkipUndecodable(l)
    \/ \E l \in Loops : PublishOk(l)
    \/ \E l \in Loops : MarkProcessed(l)
    \/ \E d \in WireDispatches : \E m \in Wire \cup ForeignRaw : ConsumeWire(d, m)
    \/ \E d \in WireDispatches : GetUser(d)
    \/ \E d \in WireDispatches : CreateUser(d)
    \/ \E d \in WireDispatches : UpdateUser(d)
    \/ \E d \in WireDispatches : Return(d)

WireSpec == WireInit /\ [][WireNext]_vars

(***************************************************************************)
(* The in-process bus.  eventBus.subscribers is the slice of subscriber    *)
(* channels, each with its capacity, its buffered events and the events it *)
(* ever accepted; eventBus.goroutines holds one record per distribute      *)
(* goroutine: its event, the length of the slice it was started with, the  *)
(* index of its next send and the indices whose buffer it found full.      *)
(***************************************************************************)
busVars ==
    <<storeKind, workerKind, clock, inflight, storeVars, envVars, ch,
      loopVars, histVars, enqueued, lastFetch, lastMark, tx, lastWrite, craw,
      cancelled, moreVars, consVars>>

\* Subscribe(bufferSize): a new buffered channel appended under the lock.
Subscribe(bufferSize) ==
    /\ Len(eventBus.subscribers) < MaxSubscribers
    /\ eventBus' = [eventBus EXCEPT !.subscribers =
                      Append(@, [cap |-> bufferSize, buf |-> <<>>, hist |-> {},
                                  peak |-> 0, recv |-> <<>>])]
    /\ UNCHANGED busVars

\* Publish(ctx, event): marshals the event and, when there are subscribers,
\* starts a distribute goroutine on the current slice; returns nil.
BusPublish ==
    LET ev == eventBus.published + 1
        n == Len(eventBus.subscribers) IN
    /\ eventBus.published < MaxPublish
    /\ eventBus' = [eventBus EXCEPT
                      !.published = ev,
                      !.goroutines = IF n > 0
                                     THEN @ \cup {[ev |-> ev, n |-> n, i |-> 1,
                                                   full |-> {}]}
                                     ELSE @]
    /\ UNCHANGED busVars

\* select { case subChan <- event: default: } on one subscriber channel.
TrySend(sub, ev) ==
    IF Len(sub.buf) < sub.cap
    THEN [sub EXCEPT !.buf = Append(@, ev), !.hist = @ \cup {ev},
                     !.peak = IF Len(sub.buf) + 1 > @ THEN Len(sub.buf) + 1 ELSE @]
    ELSE sub

\* A loop that returns at the first full subscriber.
ReturnWhenFull(g, sent) == IF sent THEN g.i + 1 ELSE g.n + 1

\* for _, subChan := range subs: the loop goes on to the next subscriber
\* whether or not the send was taken.
AfterSend(g, sent) == g.i + 1

\* One iteration of distribute for goroutine g.
Distribute(g) ==
    LET sub == eventBus.subscribers[g.i]
        sent == Len(sub.buf) < sub.cap IN
    /\ g \in eventBus.goroutines
    /\ g.i <= g.n
    /\ eventBus' = [eventBus EXCEPT
                      !.subscribers[g.i] = TrySend(sub, g.ev),
                      !.goroutines = (@ \ {g}) \cup
                          {[g EXCEPT !.i = AfterSend(g, sent),
                                     !.full = IF sent THEN @ ELSE @ \cup {g.i}]}]
    /\ UNCHANGED busVars

\* case msg := <-ch in a subscriber's consumer loop.
BusReceive(j) ==
    /\ j \in DOMAIN eventBus.subscribers
    /\ eventBus.subscribers[j].buf # <<>>
    /\ eventBus' = [eventBus EXCEPT
                      !.subscribers[j].buf = Tail(@),
                      !.subscribers[j].recv =
                          Append(@, Head(eventBus.subscribers[j].buf))]
    /\ UNCHANGED busVars

BusInit == Init /\ storeKind = "memory" /\ workerKind = "relayer"

BusNext ==
    \/ \E bufferSize \in 1..MaxBuffer : Subscribe(bufferSize)
    \/ BusPublish
    \/ \E g \in eventBus.goroutines : Distribute(g)
    \/ \E j \in 1..MaxSubscribers : BusReceive(j)

BusSpec == BusInit /\ [][BusNext]_vars

(***************************************************************************)
(* The outbox store driven through its port by a direct caller, as the     *)
(* repository tests and any second relay do.                               *)
(***************************************************************************)
\* repo.FetchPendingOutbox(ctx, limit)
CallFetch(limit) ==
    LET res == FetchPendingOutbox(storeKind, outbox, dbUp, limit) IN
    /\ lastFetch' = [limit |-> limit, up |-> dbUp,
                     pending |-> {id \in EventIds : IsPending(id)},
                     err |-> res.err, events |-> res.events]
    /\ UNCHANGED <<consVars, lastMark, auxVars, storeKind, workerKind,
                   storeVars, envVars, writeVars, ch, loopVars, histVars,
                   enqueued>>

\* repo.MarkOutboxProcessed(ctx, id)
CallMark(id) ==
    LET res == MarkOutboxProcessed(storeKind, outbox, dbUp, id) IN
    /\ lastMark' = [id |-> id, again |-> lastMark.id = id /\ ~lastMark.err,
                    up |-> dbUp, existed |-> id \in Ids(outbox),
                    err |-> res.err, changed |-> res.outbox # outbox]
    /\ outbox' = res.outbox
    /\ markedOk' = IF res.err THEN markedOk ELSE markedOk \cup {id}
    /\ UNCHANGED <<consVars, lastFetch, auxVars, storeKind, workerKind, stored,
                   envVars, writeVars, ch, loopVars, lastCall, pubCalled,
                   pubOk, markCalls, enqueued>>

StoreInit == Init /\ workerKind = "relayer"

StoreNext ==
    \/ \E t \in {"user.created", "user.deleted"} : ServiceBuildEvent(t)
    \/ \E evt \in inflight : RepoStore(evt)
    \/ DbDown
    \/ DbRecover
    \/ \E limit \in 1..MaxLimit : CallFetch(limit)
    \/ \E id \in EventIds : CallMark(id)

StoreSpec == StoreInit /\ [][StoreNext]_vars

(***************************************************************************)
(* Specifications of the relay.  Spec is the deployed wiring: nothing      *)
(* calls Enqueue, so the worker is fed by polling alone.  PushSpec adds    *)
(* producers that hand saved events to OutboxWorker.Enqueue.               *)
(***************************************************************************)
Next ==
    \/ \E t \in EventTypes : ServiceBuildEvent(t)
    \/ \E evt \in inflight : RepoStore(evt)
    \/ BrokerDown
    \/ BrokerRecover
    \/ DbDown
    \/ DbRecover
    \/ Tick
    \/ \E l \in Loops : SkipUnknownType(l)
    \/ \E l \in Loops : SkipUndecodable(l)
    \/ \E l \in Loops : PublishOk(l)
    \/ \E l \in Loops : PublishFail(l)
    \/ \E l \in Loops : MarkProcessed(l)

Spec == Init /\ [][Next]_vars

\* One step of a processing pass of loop l.
WorkerStep(l) ==
    \/ SkipUnknownType(l)
    \/ SkipUndecodable(l)
    \/ PublishOk(l)
    \/ PublishFail(l)
    \/ MarkProcessed(l)

\* The ticker keeps firing, a started pass runs on, the service's repository
\* call returns, and an outage of the broker or the database ends.
Fairness ==
    /\ WF_vars(Tick)
    /\ \A l \in Loops : WF_vars(WorkerStep(l))
    /\ WF_vars(\E evt \in inflight : RepoStore(evt))
    /\ WF_vars(BrokerRecover)
    /\ WF_vars(DbRecover)

FairSpec == Init /\ [][Next]_vars /\ Fairness

\* A worker built with a batch size that lets one pass hold several rows.
PassNext ==
    \/ \E t \in EventTypes : ServiceBuildEvent(t)
    \/ \E evt \in inflight : RepoStore(evt)
    \/ BrokerDown
    \/ BrokerRecover
    \/ DbDown
    \/ DbRecover
    \/ ProcessBatch(PassBatch)
    \/ SkipUnknownType("poll")
    \/ SkipUndecodable("poll")
    \/ PublishOk("poll")
    \/ PublishFail("poll")
    \/ MarkProcessed("poll")

PassSpec == Init /\ [][PassNext]_vars

\* The same worker with its fetches kept on record.
FetchNext ==
    \/ \E t \in EventTypes : ServiceBuildEvent(t)
    \/ \E evt \in inflight : RepoStore(evt)
    \/ DbDown
    \/ DbRecover
    \/ FetchPass(PassBatch, TRUE)
    \/ SkipUnknownType("poll")
    \/ SkipUndecodable("poll")
    \/ PublishOk("poll")
    \/ MarkProcessed("poll")

FetchSpec == Init /\ [][FetchNext]_vars

PushInit == Init /\ workerKind = "user"

PushNext ==
    \/ \E t \in {"user.created", "user.deleted"} : ServiceBuildEvent(t)
    \/ \E evt \in inflight : RepoStore(evt)
    \/ \E evt \in Rows(outbox) : Enqueue(evt)
    \/ BrokerDown
    \/ BrokerRecover
    \/ DbDown
    \/ DbRecover
    \/ Tick
    \/ Receive
    \/ \E l \in Loops : PublishOk(l)
    \/ \E l \in Loops : PublishFail(l)
    \/ \E l \in Loops : MarkProcessed(l)

PushSpec == PushInit /\ [][PushNext]_vars

\* OutboxWorker.Start with publisher and database available throughout.
PushLiveNext ==
    \/ \E t \in {"user.created", "user.deleted"} : ServiceBuildEvent(t)
    \/ \E evt \in inflight : RepoStore(evt)
    \/ \E evt \in Rows(outbox) : Enqueue(evt)
    \/ Tick
    \/ Receive
    \/ \E l \in Loops : PublishOk(l)
    \/ \E l \in Loops : MarkProcessed(l)

\* Both goroutines of Start keep running: the ticker fires, a queued event
\* is received, a started publishAndMark runs on.
PushFairness ==
    /\ WF_vars(Tick)
    /\ WF_vars(Receive)
    /\ \A l \in Loops : WF_vars(WorkerStep(l))
    /\ WF_vars(\E evt \in inflight : RepoStore(evt))

FairPushSpec == PushInit /\ [][PushLiveNext]_vars /\ PushFairness

\* Two relayer.Worker processes polling the same outbox store, with events
\* of registered types only.
TwoInit == Init /\ workerKind = "relayer"

TwoNext ==
    \/ \E t \in {"user.created", "user.deleted"} : ServiceBuildEvent(t)
    \/ \E evt \in inflight : RepoStore(evt)
    \/ BrokerDown
    \/ BrokerRecover
    \/ Tick
    \/ TickSecond
    \/ \E l \in Loops : SkipUndecodable(l)
    \/ \E l \in Loops : PublishOk(l)
    \/ \E l \in Loops : PublishFail(l)
    \/ \E l \in Loops : MarkProcessed(l)

TwoSpec == TwoInit /\ [][TwoNext]_vars

\* Both tickers keep firing, started passes run on, the repository call
\* returns and a publisher outage ends.
TwoFairness ==
    /\ WF_vars(Tick)
    /\ WF_vars(TickSecond)
    /\ \A l \in Loops : WF_vars(WorkerStep(l))
    /\ WF_vars(\E evt \in inflight : RepoStore(evt))
    /\ WF_vars(BrokerRecover)

FairTwoSpec == TwoInit /\ [][TwoNext]_vars /\ TwoFairness

(***************************************************************************)
(* Shutdown: the context handed to Start is cancelled.                     *)
(***************************************************************************)
shutVars ==
    <<storeKind, workerKind, clock, inflight, storeVars, envVars, ch, queue,
      attempts, histVars, enqueued, lastFetch, lastMark, tx, lastWrite, craw,
      eventBus, moreVars, consVars>>

\* cancel() of the context the worker was started with.
Cancel ==
    /\ ~cancelled
    /\ cancelled' = TRUE
    /\ UNCHANGED <<shutVars, pc>>

\* The loops Start runs: relayer.Worker polls only, OutboxWorker also
\* receives from its channel.
Running == IF workerKind = "user" THEN {"poll", "push"} ELSE {"poll"}

\* A loop that does not return on Done.
IgnoresDone(l) == "idle"

\* case <-ctx.Done(): return
OnDone(l) == "exited"

\* The select of loop l takes the Done case; when the ticker or the channel
\* is ready too, either case may be taken.
Exit(l) ==
    /\ cancelled
    /\ l \in Running
    /\ pc[l] = "idle"
    /\ pc' = [pc EXCEPT ![l] = OnDone(l)]
    /\ UNCHANGED <<shutVars, cancelled>>

ShutdownNext ==
    \/ \E t \in {"user.created", "user.deleted"} : ServiceBuildEvent(t)
    \/ \E evt \in inflight : RepoStore(evt)
    \/ \E evt \in Rows(outbox) : Enqueue(evt)
    \/ BrokerDown
    \/ BrokerRecover
    \/ Tick
    \/ Receive
    \/ \E l \in Loops : SkipUndecodable(l)
    \/ \E l \in Loops : PublishOk(l)
    \/ \E l \in Loops : PublishFail(l)
    \/ \E l \in Loops : MarkProcessed(l)
    \/ Cancel
    \/ \E l \in Loops : Exit(l)

\* A started publishAndMark runs on, and a select that is offered the Done
\* case again and again takes it eventually (the choice among ready cases is
\* random).
ShutdownFairness ==
    /\ \A l \in Loops : WF_vars(WorkerStep(l))
    /\ \A l \in Loops : SF_vars(Exit(l))

ShutdownSpec == Init /\ [][ShutdownNext]_vars /\ ShutdownFairness

(***************************************************************************)
(* The consumer's receive loop: ConsumerAdapter.Start on a kafka.Reader,   *)
(* BackgroundConsumerChan on a subscriber channel of the in-process bus.   *)
(***************************************************************************)
coreVars ==
    <<storeKind, workerKind, clock, inflight, storeVars, envVars, ch,
      loopVars, histVars, enqueued, lastFetch, lastMark, tx, lastWrite, craw,
      eventBus, consVars>>

adapterRest == <<coreVars, kafka, cache, wiring>>

AdapterKinds == {"kafka", "chan"}

\* Start(ctx) / BackgroundConsumerChan(ctx, ch, consumer): go func() { for {
AdapterStart(kind) ==
    /\ adapter.pc = "off"
    /\ adapter' = [adapter EXCEPT !.kind = kind, !.pc = "read"]
    /\ UNCHANGED <<adapterRest, cancelled>>

\* A producer writes a message to the topic / the bus delivers one to the
\* subscriber channel.
Produce ==
    /\ adapter.sent < MaxMessages
    /\ adapter' = [adapter EXCEPT !.sent = @ + 1,
                                  !.inbox = Append(@, adapter.sent + 1)]
    /\ UNCHANGED <<adapterRest, cancelled>>

\* msg, err := c.reader.ReadMessage(ctx) with err == nil / case msg := <-ch:
\* the message is handed to HandleMessage.  The reader and the select may
\* return a waiting message although ctx is already cancelled.
ReadMessage ==
    LET m == Head(adapter.inbox) IN
    /\ adapter.pc = "read"
    /\ adapter.inbox # <<>>
    /\ \E st \in BOOLEAN :
          adapter' = [adapter EXCEPT
                        !.pc = "handle", !.cur = m, !.stuck = st,
                        !.inbox = Tail(@),
                        !.handed = @ \cup {m},
                        !.late = IF cancelled THEN @ \cup {m} ELSE @]
    /\ UNCHANGED <<adapterRest, cancelled>>

\* A loop that returns on any receive error.
ReturnOnError(ctxErr) == "exited"

\* if err != nil { if ctx.Err() != nil { return }; log; continue }
AfterReadError(ctxErr) == IF ctxErr THEN "exited" ELSE "read"

\* ReadMessage returned an error: a transient one, or the context's.
ReadError ==
    /\ adapter.kind = "kafka"
    /\ adapter.pc = "read"
    /\ adapter' = [adapter EXCEPT !.pc = AfterReadError(cancelled),
                                  !.erred = @ \/ ~cancelled]
    /\ UNCHANGED <<adapterRest, cancelled>>

\* case <-ctx.Done(): return, in BackgroundConsumerChan.
DoneCase ==
    /\ adapter.kind = "chan"
    /\ adapter.pc = "read"
    /\ cancelled
    /\ adapter' = [adapter EXCEPT !.pc = "exited"]
    /\ UNCHANGED <<adapterRest, cancelled>>

\* HandleMessage returned: the downstream call answered.
HandlerReturns ==
    /\ adapter.pc = "handle"
    /\ ~adapter.stuck
    /\ adapter' = [adapter EXCEPT !.pc = "read", !.cur = 0]
    /\ UNCHANGED <<adapterRest, cancelled>>

\* A handler whose action runs on the loop's ctx, without a deadline.
WaitsForDownstream(a) == a

\* withContext: ctxUser, cancel := context.WithTimeout(ctx, 500ms); the
\* action returns the deadline error, a warning is logged, HandleMessage
\* returns.
OnDeadline(a) ==
    [a EXCEPT !.pc = "read", !.cur = 0, !.stuck = FALSE,
              !.failed = @ \cup {a.cur}]

\* The deadline of ctxUser passes while the downstream call has not answered.
Deadline ==
    /\ adapter.pc = "handle"
    /\ adapter.stuck
    /\ adapter' = OnDeadline(adapter)
    /\ UNCHANGED <<adapterRest, cancelled>>

AdapterNext ==
    \/ \E kind \in AdapterKinds : AdapterStart(kind)
    \/ Produce
    \/ ReadMessage
    \/ ReadError
    \/ DoneCase
    \/ HandlerReturns
    \/ Deadline
    \/ Cancel

AdapterInit == Init /\ storeKind = "memory" /\ workerKind = "relayer"

\* The goroutine keeps running: a waiting message is received, the handler
\* and the deadline timer run on, and a cancelled loop is offered its exit
\* again and again.
AdapterFairness ==
    /\ WF_vars(ReadMessage)
    /\ WF_vars(HandlerReturns)
    /\ WF_vars(Deadline)
    /\ SF_vars(DoneCase)
    /\ SF_vars(ReadError /\ cancelled)

AdapterSpec == AdapterInit /\ [][AdapterNext]_vars /\ AdapterFairness

(***************************************************************************)
(* The durable broker adapter: KafkaPublisher.Publish on a kafka.Writer.   *)
(***************************************************************************)
\* Values handed to Publish: the pointers the relay decodes into, a User by
\* value, main's IntegrationEvent, and a value json.Marshal refuses.
KafkaEvents ==
    [kind : {"*User", "*Task", "User", "IntegrationEvent", "chan"}, id : 1..2]

\* What writer.WriteMessages returns: nil or the broker's error.
WriteErrors == {"nil", "timeout", "closed"}

\* json.Marshal(event): an error for a value with no JSON encoding.
Marshals(event) == event.kind # "chan"

\* event.(sharedBus.Keyer): PartitionKey has a pointer receiver, so *User and
\* *Task satisfy the interface and a User by value does not.
IsKeyer(event) == event.kind \in {"*User", "*Task"}

\* func (u *User) PartitionKey() string { return u.ID.String() }
PartitionKey(event) == <<event.id>>

\* A Publish that logs the writer's error and returns nil.
SwallowsWriteError(event, writeErr) ==
    IF ~Marshals(event)
    THEN [ret |-> "marshal", msg |-> NoMessage, wrote |-> FALSE]
    ELSE [ret |-> "nil",
          msg |-> [key |-> IF IsKeyer(event) THEN PartitionKey(event) ELSE <<>>,
                   value |-> event.kind],
          wrote |-> writeErr = "nil"]

\* KafkaPublisher.Publish(ctx, event) when WriteMessages returns writeErr.
KafkaPublisherPublish(event, writeErr) ==
    IF ~Marshals(event)
    THEN [ret |-> "marshal", msg |-> NoMessage, wrote |-> FALSE]
    ELSE LET key == IF IsKeyer(event) THEN PartitionKey(event) ELSE <<>>
             msg == [key |-> key, value |-> event.kind] IN
         [ret |-> writeErr, msg |-> msg, wrote |-> writeErr = "nil"]

\* A caller publishes an event; the broker takes the message or fails.
CallPublish(event, writeErr) ==
    LET res == KafkaPublisherPublish(event, writeErr) IN
    /\ Len(kafka.topic) < MaxMessages
    /\ kafka' = [topic |-> IF res.wrote THEN Append(kafka.topic, res.msg)
                           ELSE kafka.topic,
                 last |-> [called |-> TRUE, event |-> event,
                           writeErr |-> writeErr, ret |-> res.ret,
                           msg |-> res.msg]]
    /\ UNCHANGED <<coreVars, cancelled, adapter, cache, wiring>>

KafkaNext == \E event \in KafkaEvents : \E writeErr \in WriteErrors :
                 CallPublish(event, writeErr)

KafkaSpec == Init /\ [][KafkaNext]_vars

(***************************************************************************)
(* Cache-aside reads: UserService.GetUser / TaskService.GetTaskByID and    *)
(* the refresh goroutine a miss starts.                                    *)
(***************************************************************************)
UserIds == 1..MaxUsers

\* A refresh that runs on the request's context.
OnRequestCtx(reqDone) == reqDone

\* Whether the refresh's context is done when the request's is:
\* context.WithTimeout(context.Background(), 100ms) does not descend from
\* the request's context.
RefreshCtxDone(reqDone) == FALSE

\* GetUser(ctx, id) of request r up to the retry loop: a cache hit is
\* returned as it is, a miss goes on to sharedUtils.Retry(ctx, 3, ...).
CacheGetUser(r, id) ==
    LET q == cache.req[r]
        hit == cache.up /\ ~q.ctxDone /\ id \in cache.held IN
    /\ q.pc = "idle"
    /\ cache' = [cache EXCEPT
                   !.req[r] = [q EXCEPT
                                 !.id = id,
                                 !.absent = ~GetByID(users, id),
                                 !.served = hit,
                                 !.ret = IF hit THEN "nil" ELSE "none",
                                 !.pc = IF hit THEN "done" ELSE "call"]]
    /\ UNCHANGED <<coreVars, cancelled, adapter, kafka, wiring>>

\* s.repo.GetByID(ctx, id): the SQL repositories fail on a done context or a
\* database that is down, the in-memory one looks at neither.
RepoGetByID(q) ==
    IF storeKind # "memory" /\ (q.ctxDone \/ ~dbUp) THEN "dberr"
    ELSE IF GetByID(users, q.id) THEN "nil"
    ELSE "notfound"

\* err = fn() in Retry: nil returns at once, and GetUser starts the refresh
\* goroutine and returns the user; an error goes on to the select.
RepoLookup(r) ==
    LET q == cache.req[r]
        err == RepoGetByID(q) IN
    /\ q.pc = "call"
    /\ cache' = [cache EXCEPT
                   !.req[r] =
                      IF err = "nil"
                      THEN [q EXCEPT !.tries = @ + 1, !.served = TRUE, !.absent = FALSE,
                                     !.ret = "nil", !.pc = "refresh"]
                      ELSE [q EXCEPT !.tries = @ + 1, !.lastErr = err,
                                     !.pc = "wait"]]
    /\ UNCHANGED <<coreVars, cancelled, adapter, kafka, wiring>>

\* A loop that runs one call past its n attempts.
OneCallMore(tries, n) == IF tries <= n THEN "call" ELSE "done"

\* for i := 0; i < attempts; i++ with attempts = n: where the loop is after
\* the delay.
AfterDelay(tries, n) == IF tries < n THEN "call" ELSE "done"

\* select { case <-time.After(delay): ; case <-ctx.Done(): return ctx.Err() }
\* after a failed call, the last one included: the delay passes and the loop
\* goes on or returns the last error, or the done context is seen first and
\* its error is returned.
RetryWait(r, seesDone) ==
    LET q == cache.req[r]
        to == AfterDelay(q.tries, getRetries) IN
    /\ q.pc = "wait"
    /\ seesDone => q.ctxDone
    /\ cache' = [cache EXCEPT
                   !.req[r] =
                      IF seesDone THEN [q EXCEPT !.pc = "done", !.ret = "ctx"]
                      ELSE [q EXCEPT !.pc = to,
                                     !.ret = IF to = "done" THEN q.lastErr
                                             ELSE q.ret]]
    /\ UNCHANGED <<coreVars, cancelled, adapter, kafka, wiring>>

\* The HTTP request ends or its client goes away: its context is cancelled.
CancelRequest(r) ==
    /\ cache.req[r].pc # "done"
    /\ ~cache.req[r].ctxDone
    /\ cache' = [cache EXCEPT !.req[r].ctxDone = TRUE]
    /\ UNCHANGED <<coreVars, cancelled, adapter, kafka, wiring>>

\* The refresh goroutine of request r: s.cache.Set(ctxCache, key, u, 60); an
\* error (context done, or no answer within the timeout) is logged.
CacheSet(r) ==
    LET q == cache.req[r]
        ok == cache.up /\ ~RefreshCtxDone(q.ctxDone) IN
    /\ q.pc = "refresh"
    /\ cache' = [cache EXCEPT
                   !.held = IF ok THEN @ \cup {q.id} ELSE @,
                   !.req[r] = [q EXCEPT !.pc = "done", !.refreshed = ok]]
    /\ UNCHANGED <<coreVars, cancelled, adapter, kafka, wiring>>

\* The cache server stops answering / answers again.
CacheDown ==
    /\ cache.up
    /\ cache' = [cache EXCEPT !.up = FALSE]
    /\ UNCHANGED <<coreVars, cancelled, adapter, kafka, wiring>>

CacheRecover ==
    /\ ~cache.up
    /\ cache' = [cache EXCEPT !.up = TRUE]
    /\ UNCHANGED <<coreVars, cancelled, adapter, kafka, wiring>>

\* The ttl of an entry passes.
CacheExpire(id) ==
    /\ id \in cache.held
    /\ cache' = [cache EXCEPT !.held = @ \ {id}]
    /\ UNCHANGED <<coreVars, cancelled, adapter, kafka, wiring>>

CacheNext ==
    \/ HttpCreateUser("ana")
    \/ \E r \in Requests : \E id \in UserIds : CacheGetUser(r, id)
    \/ \E r \in Requests : RepoLookup(r)
    \/ \E r \in Requests : \E seesDone \in BOOLEAN : RetryWait(r, seesDone)
    \/ \E r \in Requests : CancelRequest(r)
    \/ \E r \in Requests : CacheSet(r)
    \/ CacheDown
    \/ CacheRecover
    \/ \E id \in UserIds : CacheExpire(id)

\* A started goroutine runs.
CacheFairness == \A r \in Requests : WF_vars(CacheSet(r))

\* The reads do not involve the relay: one worker kind is enough.
CacheInit == Init /\ workerKind = "relayer"

CacheSpec == CacheInit /\ [][CacheNext]_vars /\ CacheFairness

(***************************************************************************)
(* Writes through the service: UserService.UpdateUser / DeleteUser and the *)
(* background cache tasks they start.                                      *)
(***************************************************************************)
serviceRest ==
    <<storeKind, workerKind, inflight, envVars, ch, loopVars, histVars, enqueued, lastFetch,
      lastMark, tx, lastWrite, craw, eventBus, cancelled, adapter, kafka, wiring, bus,
      nextUid, cpc, cmsg, ctries, cout, cprior, handled>>

\* The background task a successful write starts: AsyncCacheSet after
\* repo.Update (its goroutine sets the key under a context of its own),
\* AsyncCacheDelete after repo.DeleteByID (its goroutine deletes the key under
\* the request's ctx).
CacheTaskOf(op, id) ==
    [op |-> IF op = "update" THEN "set" ELSE "delete", id |-> id, ctxDone |-> FALSE]

\* What the service has returned success for, per user, in call order.
WriteLog(before, op) ==
    IF op = "update" THEN "updated"
    ELSE IF before = "updated" THEN "deleted"
    ELSE "gone"

\* UserService.UpdateUser(ctx, u) / DeleteUser(ctx, u.ID): the outbox event is
\* built, the repository writes entity and event in one transaction, and on
\* success the cache task is started and nil returned; on an error the
\* error is returned and nothing else happens (the event, never stored, takes
\* no identity from the clock).  A call made by the event consumer is kept in
\* cache.upd.
ServiceApply(op, u, byConsumer) ==
    LET res == IF SqlDown THEN [err |-> "db", users |-> users]
               ELSE RepoApply(op, storeKind, users, u)
        evt == [id |-> clock, eventType |-> EventTypeOf(op), createdAt |-> clock,
                processed |-> FALSE, aggregateId |-> u.id]
        upd == IF byConsumer
               THEN [called |-> TRUE, absent |-> ~GetByID(users, u.id), err |-> res.err]
               ELSE cache.upd IN
    /\ IF res.err = "nil"
       THEN /\ clock <= MaxEvents
            /\ clock' = clock + 1
            /\ users' = res.users
            /\ outbox' = Append(outbox, evt)
            /\ stored' = stored \cup {evt}
            /\ cache' = [cache EXCEPT !.tasks = @ \cup {CacheTaskOf(op, u.id)},
                                      !.writes[u.id] = WriteLog(@, op),
                                      !.upd = upd]
       ELSE /\ cache' = [cache EXCEPT !.upd = upd]
            /\ UNCHANGED <<users, outbox, stored, clock>>
    /\ UNCHANGED serviceRest

\* An HTTP update or delete of user id.
ServiceWrite(op, id) ==
    LET u == IF GetByID(users, id) THEN CHOOSE x \in users : x.id = id
             ELSE [id |-> id, email |-> "ana", origin |-> id] IN
    /\ op \in {"update", "delete"}
    /\ ServiceApply(op, u, FALSE)

\* The GetUser call of the consumer's UserUpdated / TaskUpdated action.
ConsumerRequest == "r1"

\* The UserUpdated action after GetUser returned a user (from the cache or
\* from the repository): the event's fields are assigned and
\* c.service.UpdateUser(ctxUser, user) is called; withContext logs its
\* error.  When GetUser returned an error the action has returned it and
\* no call is made.
ConsumerUpdateUser(email) ==
    LET q == cache.req[ConsumerRequest] IN
    /\ q.pc \in {"refresh", "done"}
    /\ q.served
    /\ ~cache.upd.called
    /\ ServiceApply("update", [id |-> q.id, email |-> email, origin |-> q.id], TRUE)

\* The HTTP handler has answered: c.Request.Context() is cancelled, and with
\* it the ctx a pending AsyncCacheDelete goroutine holds.
EndWriteRequest(t) ==
    /\ t \in cache.tasks
    /\ t.op = "delete"
    /\ ~t.ctxDone
    /\ cache' = [cache EXCEPT !.tasks = (@ \ {t}) \cup {[t EXCEPT !.ctxDone = TRUE]}]
    /\ UNCHANGED <<coreVars, cancelled, adapter, kafka, wiring>>

\* A background task's goroutine runs: cache.Set / cache.Delete; an error
\* (no answer, context done) is logged and the entry stays as it was.
RunCacheTask(t) ==
    LET ok == cache.up /\ ~t.ctxDone IN
    /\ t \in cache.tasks
    /\ cache' = [cache EXCEPT
                   !.tasks = @ \ {t},
                   !.held = IF ~ok THEN @
                            ELSE IF t.op = "set" THEN @ \cup {t.id}
                            ELSE @ \ {t.id}]
    /\ UNCHANGED <<coreVars, cancelled, adapter, kafka, wiring>>

\* The writes, their cache tasks, and one consumer handling an update event.
CoherenceNext ==
    \/ HttpCreateUser("ana")
    \/ \E op \in {"update", "delete"} : \E id \in UserIds : ServiceWrite(op, id)
    \/ \E t \in cache.tasks : EndWriteRequest(t)
    \/ \E t \in cache.tasks : RunCacheTask(t)
    \/ \E id \in UserIds : CacheGetUser(ConsumerRequest, id)
    \/ RepoLookup(ConsumerRequest)
    \/ \E seesDone \in BOOLEAN : RetryWait(ConsumerRequest, seesDone)
    \/ CancelRequest(ConsumerRequest)
    \/ CacheSet(ConsumerRequest)
    \/ ConsumerUpdateUser("bob")

CoherenceSpec == CacheInit /\ [][CoherenceNext]_vars

(***************************************************************************)
(* main: the outbox worker section and the HTTP server after it.           *)
(***************************************************************************)
\* Where main is once it has called Start on a worker.  OutboxWorker.Start
\* launches its two loops with go and returns; relayer.Worker.Start is the
\* polling loop itself and returns only on ctx.Done(), and main's ctx is
\* context.Background().
AfterStart(kind, next) == IF kind = "user" THEN next ELSE "inStart"

\* Keys of userDomain.NewEventRegistry() and taskDomain.NewEventRegistry().
UserRegistry == {"user.created", "user.updated", "user.deleted"}
TaskRegistry == {"task.created", "task.updated", "task.deleted"}

\* for k, v := range userDomain.NewEventRegistry() { eventRegistry[k] = v },
\* then the same for the task domain.
MergeRegistry ==
    /\ wiring.pc \in {"mergeUser", "mergeTask"}
    /\ wiring' = IF wiring.pc = "mergeUser"
                 THEN [wiring EXCEPT !.pc = "mergeTask",
                                     !.registry = @ \cup UserRegistry]
                 ELSE [wiring EXCEPT !.pc = "workers",
                                     !.registry = @ \cup TaskRegistry]
    /\ UNCHANGED <<coreVars, cancelled, adapter, kafka, cache>>

\* A map whose index expression stores the zero value for a missing key.
InsertsOnMiss(reg, eventType) == reg \cup {eventType}

\* metadata, ok := w.eventRegistry[evt.EventType]: what the map holds after
\* the read; a Go map read stores nothing.
AfterLookup(reg, eventType) == reg

\* The first statement of relayer.Worker.publishAndMark for the event the
\* polling loop is at.
LookupRegistry ==
    /\ wiring.started >= 1
    /\ workerKind = "relayer"
    /\ pc["poll"] = "proc"
    /\ Cur("poll").eventType \notin wiring.looked
    /\ wiring' = [wiring EXCEPT
                    !.registry = AfterLookup(@, Cur("poll").eventType),
                    !.looked = @ \cup {Cur("poll").eventType}]
    /\ UNCHANGED <<coreVars, cancelled, adapter, kafka, cache>>

\* outboxUserWorker.Start(ctx); local is cfg.LocalDeployment, the wiring
\* with a second worker.
StartFirstWorker(local) ==
    /\ wiring.pc = "workers"
    /\ wiring' = [wiring EXCEPT
                    !.pc = AfterStart(workerKind,
                                      IF local THEN "second" ELSE "http"),
                    !.local = local, !.started = 1]
    /\ UNCHANGED <<coreVars, cancelled, adapter, kafka, cache>>

\* outboxTaskWorker.Start(ctx)
StartSecondWorker ==
    /\ wiring.pc = "second"
    /\ wiring' = [wiring EXCEPT !.pc = AfterStart(workerKind, "http"),
                                !.started = 2]
    /\ UNCHANGED <<coreVars, cancelled, adapter, kafka, cache>>

\* router.Run(":" + cfg.HTTPPort)
RunServer ==
    /\ wiring.pc = "http"
    /\ wiring' = [wiring EXCEPT !.pc = "serving"]
    /\ UNCHANGED <<coreVars, cancelled, adapter, kafka, cache>>

\* main's steps, and the polling of the first worker once it is started.
WiringNext ==
    \/ MergeRegistry
    \/ LookupRegistry
    \/ \E local \in BOOLEAN : StartFirstWorker(local)
    \/ StartSecondWorker
    \/ RunServer
    \/ \E t \in EventTypes : ServiceBuildEvent(t)
    \/ \E evt \in inflight : RepoStore(evt)
    \/ wiring.started >= 1 /\ Tick
    \/ SkipUnknownType("poll")
    \/ SkipUndecodable("poll")
    \/ PublishOk("poll")
    \/ MarkProcessed("poll")

\* main and the started loops keep running.
WiringFairness ==
    /\ WF_vars(MergeRegistry)
    /\ WF_vars(\E local \in BOOLEAN : StartFirstWorker(local))
    /\ WF_vars(StartSecondWorker)
    /\ WF_vars(RunServer)
    /\ WF_vars(wiring.started >= 1 /\ Tick)
    /\ WF_vars(WorkerStep("poll"))

WiringSpec == Init /\ [][WiringNext]_vars /\ WiringFairness

(***************************************************************************)
(* Properties.                                                             *)
(***************************************************************************)
StoredIds == {e.id : e \in stored}

\* The rows a FetchPendingOutbox with a limit that covers the outbox returns.
CoveringFetch == FetchPendingOutbox(storeKind, outbox, dbUp, Len(outbox) + 1)

\* C1 (FairSpec) -- at-least-once: if from some point on the publisher and
\* the store stay available, every event that is pending in the outbox
\* store eventually is processed.
AtLeastOnce ==
    \A id \in EventIds :
        <>[](brokerUp /\ dbUp) => [](IsPending(id) => <>(~IsPending(id)))

\* C2 (Spec) -- no premature completion: a loop calls MarkOutboxProcessed(id)
\* only right after its own Publish call for the same event returned
\* success; an event that was marked was published successfully, and no
\* mark follows a failed Publish, a failed decode or a registry miss.
NoPrematureCompletion ==
    /\ \A l \in Loops :
          pc[l] = "mark" =>
              /\ lastCall[l].op = "publish"
              /\ lastCall[l].ok
              /\ lastCall[l].id = Cur(l).id
    /\ \A l \in Loops : lastCall[l].op = "mark" => lastCall[l].id \in pubOk
    /\ \A id \in EventIds : markCalls[id] > 0 => id \in pubOk

\* A pass has published an event and marked it, after another event's
\* Publish had failed.
MarkedAfterPublish ==
    /\ lastCall["poll"].op = "mark"
    /\ lastCall["poll"].ok
    /\ lastCall["poll"].id \in markedOk
    /\ pubCalled # pubOk

\* The entities handling the create event of identity id left in the store.
Created(id) == Cardinality(EntitiesOf(id))

\* C3 (ConsumerSpec) -- idempotent create: when HandleMessage has handled a
\* create event again, the store holds exactly one entity for it, and the
\* second dispatch found it by the event's identity and created nothing.
IdempotentCreate ==
    \A d \in Dispatches :
        (cpc[d] = "done" /\ cprior[d]) =>
            /\ Created(cmsg[d].id) = 1
            /\ cout[d] = "duplicate"

\* C4 (ConsumerSpec) -- Scenario E: two concurrent dispatches of the same
\* create event, however their lookup and create steps interleave, end
\* with exactly one persisted entity, both having finished as a success.
ConcurrentCreateConverges ==
    \A d \in Dispatches : \A e \in Dispatches :
        (d # e /\ cpc[d] = "done" /\ cpc[e] = "done" /\ cmsg[d] = cmsg[e]) =>
            /\ Created(cmsg[d].id) = 1
            /\ cout[d] # "failed"
            /\ cout[e] # "failed"

\* Loop l has given up on an event: its last call is a failed Publish and
\* the pass no longer retries it.
GaveUp(l) ==
    /\ lastCall[l].op = "publish"
    /\ ~lastCall[l].ok
    /\ ~(pc[l] = "proc" /\ attempts[l] > 0)

\* What holds for the event id a loop's Publish last failed for.
LeftPending(id) ==
    /\ IsPending(id)
    /\ id \notin pubOk => markCalls[id] = 0
    /\ CoveringFetch.err \/ id \in Ids(CoveringFetch.events)

UnknownTypeStaysPending ==
    workerKind = "relayer" =>
        \A e \in stored :
            e.eventType \notin eventRegistry =>
                /\ e.id \notin pubCalled
                /\ markCalls[e.id] = 0
                /\ \A l \in Loops : lastCall[l].id = e.id => lastCall[l].op = "skip"
                /\ IsPending(e.id)
                /\ CoveringFetch.err \/ e.id \in Ids(CoveringFetch.events)

\* relayer.Worker has skipped an event of an unregistered type and a later
\* cycle has fetched it again.
UnknownTypeRefetched ==
    /\ workerKind = "relayer"
    /\ lastCall["poll"].op = "skip"
    /\ pc["poll"] = "proc"
    /\ Cur("poll").id = lastCall["poll"].id
    /\ Cur("poll").eventType \notin eventRegistry

\* C7 (StoreSpec) -- FIFO per fetch: the rows a FetchPendingOutbox call
\* returns are in ascending createdAt order, whatever the store and
\* whatever the order in which the events were inserted.
FifoPerFetch ==
    \A i \in DOMAIN lastFetch.events : \A j \in DOMAIN lastFetch.events :
        i < j => lastFetch.events[i].createdAt <= lastFetch.events[j].createdAt

MarkedIsGone ==
    \A id \in markedOk :
        /\ ~IsPending(id)
        /\ \A limit \in 1..(MaxEvents + 1) :
              id \notin Ids(FetchPendingOutbox(storeKind, outbox, dbUp, limit).events)
        /\ \A l \in Loops : pc[l] # "idle" => id \notin Ids(queue[l])

\* Scenario A: the one event stored is marked; the next fetch returns zero
\* rows.
ScenarioA ==
    \A e \in stored :
        (stored = {e} /\ inflight = {} /\ e.id \in markedOk) =>
            /\ SelectPending(storeKind, outbox, BatchSize) = <<>>
            /\ dbUp => FetchPendingOutbox(storeKind, outbox, dbUp, BatchSize)
                          = [err |-> FALSE, events |-> <<>>]

\* The worker makes no further Publish or MarkOutboxProcessed call for an
\* event whose mark has succeeded: that mark stays the only one.
NoCallAfterMark ==
    \A l \in Loops :
        lastCall'[l] # lastCall[l] => lastCall'[l].id \notin markedOk

\* C9 (Spec) -- processed is terminal: once MarkOutboxProcessed(id) has
\* succeeded no later FetchPendingOutbox returns the event, in flag and in
\* delete stores; in Scenario A the successful mark is the only one and the
\* next fetch returns zero rows.
ProcessedIsTerminal ==
    /\ [](MarkedIsGone /\ ScenarioA)
    /\ [][NoCallAfterMark]_vars

\* Scenario A has run: the one stored event, of a registered type, was
\* published and marked with one call, and nothing is pending.
ScenarioADone ==
    \E e \in stored :
        /\ stored = {e}
        /\ inflight = {}
        /\ e.eventType \in eventRegistry
        /\ e.id \in markedOk
        /\ markCalls[e.id] = 1
        /\ lastCall["poll"] = [op |-> "mark", id |-> e.id, ok |-> TRUE, n |-> 0]

\* The caller has marked the same id twice in a row and the first call
\* succeeded, the store being reachable at the second.
MarkedTwice ==
    /\ lastMark.id # 0
    /\ lastMark.again
    /\ lastMark.up

\* C10 as stated (StoreSpec) -- MarkOutboxProcessed is idempotent: a second
\* call for the same id succeeds and leaves the store as the first left it;
\* an error means the row does not exist.
MarkIsIdempotent ==
    /\ MarkedTwice => (~lastMark.err /\ ~lastMark.changed)
    /\ (lastMark.err /\ lastMark.up) => ~lastMark.existed

\* C10 amended (StoreSpec) -- a second MarkOutboxProcessed for the same id
\* never changes the store; it succeeds on the stores that flag the row and
\* returns the not-found error on the stores that delete it.  With the store
\* reachable, the call fails exactly when no row has the id.
MarkTwiceIsSafe ==
    /\ MarkedTwice =>
          /\ ~lastMark.changed
          /\ lastMark.err <=> storeKind = "memory"
    /\ (lastMark.id # 0 /\ lastMark.up) =>
          (lastMark.err <=> ~lastMark.existed)
    /\ lastMark.err => ~lastMark.changed

\* A delete store has answered the second mark of an id with an error.
SecondMarkNotFound ==
    /\ MarkedTwice
    /\ storeKind = "memory"
    /\ lastMark.err

\* The users table differs from the one before the last write at most in
\* the row of the user the write was for.
OnlyItsRow ==
    {x \in users : x.id # lastWrite.u.id}
        = {x \in lastWrite.usersBefore : x.id # lastWrite.u.id}

\* The aggregate mutation of the last write is in the users table.
MutationPersisted ==
    IF lastWrite.op = "delete"
    THEN /\ ~GetByID(users, lastWrite.u.id)
         /\ GetByID(lastWrite.usersBefore, lastWrite.u.id)
    ELSE /\ lastWrite.u \in users
         /\ Cardinality({x \in users : x.id = lastWrite.u.id}) = 1
         /\ lastWrite.op = "create" => ~GetByID(lastWrite.usersBefore, lastWrite.u.id)

\* C11 (WriteSpec) -- atomic outbox write: a Create / Update / DeleteByID
\* that returned success has persisted the aggregate mutation together with
\* exactly one outbox event of the write's event type and aggregate id; one
\* that returned an error has left the aggregate table and the outbox as
\* they were.
AtomicOutboxWrite ==
    /\ lastWrite.err # "nil" =>
          /\ users = lastWrite.usersBefore
          /\ outbox = lastWrite.outboxBefore
    /\ (lastWrite.op # "none" /\ lastWrite.err = "nil") =>
          /\ MutationPersisted
          /\ OnlyItsRow
          /\ outbox = Append(lastWrite.outboxBefore, lastWrite.evt)
          /\ lastWrite.evt.eventType = EventTypeOf(lastWrite.op)
          /\ lastWrite.evt.aggregateId = lastWrite.u.id
          /\ ~lastWrite.evt.processed

\* After a committed write, a write has failed at its outbox insert, its
\* aggregate statement having run.
OutboxInsertFailed ==
    /\ lastWrite.err = "outbox"
    /\ lastWrite.outboxBefore # <<>>
    /\ tx = NoTx

\* The outbox holds its rows in the order of their createdAt stamps.
StoredInCreationOrder ==
    \A i \in DOMAIN outbox : \A j \in DOMAIN outbox :
        i < j => outbox[i].createdAt < outbox[j].createdAt

\* C12 (PushSpec) -- same-aggregate ordering: of two events of one aggregate
\* that were stored in the order of their createdAt stamps, the later one is
\* never published successfully while the earlier one has not been, whatever
\* the publish failures, later cycles and the push path do.
SameAggregateOrder ==
    StoredInCreationOrder =>
        \A e1 \in Rows(outbox) : \A e2 \in stored :
            ( /\ e1.aggregateId = e2.aggregateId
              /\ e1.createdAt < e2.createdAt
              /\ e2.id \in pubOk ) => e1.id \in pubOk

\* The outbox event a dispatch's message value was published for, if any.
RelayedAs(d, eventType) ==
    /\ cpc[d] = "done"
    /\ \E e \in Published : e.id = craw[d].src /\ e.eventType = eventType

\* C13: every message the relay hands to a Publisher is on the transport as
\* the envelope {type, timestamp, data} with type equal to the outbox row's
\* eventType, so the consumer receiving the message of a user.created row
\* dispatches it to the create handler instead of dropping it.
WireEnvelopeEndToEnd ==
    /\ \A e \in Published :
          LET base == DecodeEnvelope(Serialize(workerKind, e)) IN
          ~base.err /\ base.type = e.eventType
    /\ \A d \in Dispatches :
          RelayedAs(d, "user.created") => cout[d] # "dropped"

\* A message value that is not a JSON object, or an envelope of a handled
\* type whose data does not decode into the contract.
BadValue(m) ==
    \/ m.json \in {"malformed", "string"}
    \/ m.json = "object" /\ m.type \in {"user.created", "user.updated"}
                         /\ m.data # "user"

\* C16: a dispatch that received a malformed envelope, or one whose data
\* does not decode, has returned normally (a warning, no handler), and no
\* step taken while it holds that message creates or updates a user.
MalformedNeverMutates ==
    [][\A d \in Dispatches :
          (cpc'[d] # "idle" /\ BadValue(craw'[d]))
             => /\ cpc'[d] = "done"
                /\ cout'[d] = "dropped"
                /\ users' = users
                /\ nextUid' = nextUid]_vars

\* A malformed value was received and dropped while the store held a user.
MalformedDropped ==
    \E d \in Dispatches :
       /\ cpc[d] = "done"
       /\ craw[d].json = "malformed"
       /\ cout[d] = "dropped"
       /\ users # {}

\* An envelope (a JSON object) whose type the consumer has no case for.
UnknownType(m) ==
    m.json = "object" /\ m.type \notin {"user.created", "user.updated"}

\* C17: a dispatch that received an envelope of an unrecognised type has
\* returned normally with the message dropped, and no step taken while it
\* holds that message creates or updates a user.
UnknownTypeDropped ==
    [][\A d \in Dispatches :
          (cpc'[d] # "idle" /\ UnknownType(craw'[d]))
             => /\ cpc'[d] = "done"
                /\ cout'[d] = "dropped"
                /\ users' = users
                /\ nextUid' = nextUid]_vars

\* An envelope of type "UnknownType" was received and dropped while the
\* store held a user.
UnknownTypeReceived ==
    \E d \in Dispatches :
       /\ cpc[d] = "done"
       /\ craw[d].type = "UnknownType"
       /\ cout[d] = "dropped"
       /\ users # {}

\* Enqueue was called for the event and it is in neither the queue nor the
\* push loop's hands, while its row is still pending.
DroppedFromPushPath(id) ==
    /\ id \in enqueued
    /\ IsPending(id)
    /\ id \notin Ids(ch)
    /\ id \notin Ids(queue["push"])

\* C14: an event dropped from the push path is still pending in the store
\* and the polling path publishes it on a later cycle: delivery is delayed,
\* never lost.
DroppedIsPublishedLater ==
    \A id \in EventIds : DroppedFromPushPath(id) ~> (id \in pubOk)

\* C15: Publish is never kept waiting by the subscribers, whatever their
\* number and the state of their buffers; a distribute goroutine that has
\* finished has attempted every subscriber of its slice: the event was
\* accepted by each one that had free space at its attempt, and is missing
\* only from those whose buffer it found full.
PublishNeverWaits ==
    /\ eventBus.published < MaxPublish => ENABLED BusPublish
    /\ \A g \in eventBus.goroutines :
          /\ \A j \in g.full : g.ev \notin eventBus.subscribers[j].hist
          /\ g.i > g.n =>
                \A j \in 1..g.n :
                   j \in g.full \/ g.ev \in eventBus.subscribers[j].hist

\* An event was dropped at the full buffer of the first subscriber and
\* accepted by the second.
DroppedForOneOnly ==
    \E g \in eventBus.goroutines :
       /\ g.i > g.n
       /\ g.n = 2
       /\ g.full = {1}
       /\ g.ev \in eventBus.subscribers[2].hist

\* The polling loop's last call was a MarkOutboxProcessed of the event that
\* returned an error, after a Publish of it that returned nil.
MarkFailedAfterPublish(id) ==
    /\ lastCall["poll"] = [op |-> "mark", id |-> id, ok |-> FALSE, n |-> 0]
    /\ id \in pubOk

\* The polling loop has published the event (again).
PublishedAgain(id) ==
    /\ lastCall["poll"].op = "publish"
    /\ lastCall["poll"].id = id
    /\ lastCall["poll"].ok

\* After the failed mark the worker goes on (next event of the pass, or back
\* to its ticker) and the event is still pending in the store.
MarkFailureKeepsPending ==
    \A id \in EventIds :
       MarkFailedAfterPublish(id) =>
          /\ IsPending(id)
          /\ pc["poll"] \in {"idle", "proc"}

\* C18: if Publish succeeded and MarkOutboxProcessed then returned an error,
\* the worker goes on, the event stays pending, and once publisher and
\* database stay available it is published again by a later polling cycle:
\* a duplicate delivery, never a lost event.
MarkFailureRepublishes ==
    /\ []MarkFailureKeepsPending
    /\ (<>[](brokerUp /\ dbUp)) =>
          \A id \in EventIds : MarkFailedAfterPublish(id) ~> PublishedAgain(id)

\* With two workers: a MarkOutboxProcessed call is made only by a loop whose
\* own Publish of that event returned nil just before.
MarkOnlyAfterOwnPublish ==
    /\ \A l \in Loops :
          pc[l] = "mark" =>
              /\ lastCall[l].op = "publish"
              /\ lastCall[l].ok
              /\ lastCall[l].id = Cur(l).id
    /\ \A id \in EventIds : markCalls[id] > 0 => id \in pubOk

\* C19: with two relay workers on the same store, no event is marked
\* processed without a preceding successful publish, and, once the publisher
\* stays available, every stored event of a registered type is eventually
\* processed.
TwoWorkersSafe ==
    /\ []MarkOnlyAfterOwnPublish
    /\ (<>[]brokerUp) =>
          \A id \in EventIds :
             (id \in StoredIds /\ IsPending(id)) ~> ~IsPending(id)

\* Every loop Start runs has returned.
AllExited == \A l \in Running : pc[l] = "exited"

\* An event leaves the pending state only in a MarkOutboxProcessed step of a
\* loop whose last call was a successful Publish of that event, and a
\* processed event never becomes pending again.
OnlyMarkAdvances ==
    \A id \in StoredIds :
       /\ (IsPending(id) /\ ~IsPending(id)') =>
             \E l \in Loops :
                /\ pc[l] = "mark"
                /\ Cur(l).id = id
                /\ lastCall[l] = [op |-> "publish", id |-> id, ok |-> TRUE,
                                  n |-> lastCall[l].n]
       /\ ~IsPending(id) => ~IsPending(id)'

\* A loop at its select starts a new pass: a polling cycle that fetched
\* events, or an event received from the queue.
StartsPass(l) == pc[l] = "idle" /\ pc'[l] = "proc"

\* C20 as stated: once the cancellation signal is given each loop eventually
\* exits, no loop starts further work after the signal, and no outbox event
\* changes state except through a MarkOutboxProcessed that followed a
\* successful Publish.
ShutdownWithoutFurtherWork ==
    /\ cancelled ~> AllExited
    /\ [][cancelled => \A l \in Loops : ~StartsPass(l)]_vars
    /\ [][cancelled => OnlyMarkAdvances]_vars

\* C20, amended: once the cancellation signal is given each loop eventually
\* exits, without waiting for the queue or the outbox to be drained; a loop
\* that has exited takes no further work; and no outbox event changes state
\* except through a MarkOutboxProcessed that followed a successful Publish.
ShutdownExits ==
    /\ cancelled ~> AllExited
    /\ [][\A l \in Loops :
            pc[l] = "exited" =>
               /\ pc'[l] = "exited"
               /\ lastCall'[l] = lastCall[l]
               /\ queue'[l] = queue[l]]_vars
    /\ [][cancelled => OnlyMarkAdvances]_vars

\* Both loops of OutboxWorker have exited while an event is still queued and
\* pending in the store.
ExitedWithWorkLeft ==
    /\ workerKind = "user"
    /\ AllExited
    /\ ch # <<>>
    /\ IsPending(Head(ch).id)

MessageIds == 1..MaxMessages

\* A receive error alone never ends the loop, a message that waits on the
\* transport after a receive error is still handed to the handler unless
\* the context is cancelled first, and a cancelled loop exits.
LoopContinuesAndExits ==
    /\ [](adapter.pc = "exited" => cancelled)
    /\ \A m \in MessageIds :
          (adapter.erred /\ adapter.pc # "off" /\ m \in {adapter.inbox[i] : i \in DOMAIN adapter.inbox})
             ~> (m \in adapter.handed \/ cancelled)
    /\ (cancelled /\ adapter.pc # "off") ~> (adapter.pc = "exited")

\* C21 as stated: after a transient receive error the loop continues and
\* later messages are handed to the handler; after the cancellation signal
\* the loop exits and no message is handed to the handler any more.
NoHandOverAfterCancel ==
    /\ LoopContinuesAndExits
    /\ [][cancelled => adapter'.handed = adapter.handed]_vars

\* C21, amended: after a transient receive error the loop continues and
\* later messages are handed to the handler; after the cancellation signal
\* the loop exits, and once it has exited no message is handed to the
\* handler any more.
NoHandOverAfterExit ==
    /\ LoopContinuesAndExits
    /\ [][adapter.pc = "exited" =>
             /\ adapter'.pc = "exited"
             /\ adapter'.handed = adapter.handed]_vars

\* The loop has seen a receive error, handed a message over, and exited on
\* cancellation with a message still waiting on the transport.
ExitedAfterErrorAndMessage ==
    /\ adapter.kind = "kafka"
    /\ adapter.erred
    /\ adapter.handed # {}
    /\ adapter.late = {}
    /\ adapter.pc = "exited"
    /\ adapter.inbox # <<>>

\* C22: an outbox event of a registered type whose payload does not decode
\* into the registered target is never handed to Publish nor to
\* MarkOutboxProcessed by relayer.Worker, every pass that meets it skips it,
\* and it stays pending.
UndecodableStaysPending ==
    workerKind = "relayer" =>
        \A e \in stored :
            (e.eventType \in eventRegistry /\ PayloadShape(e.eventType) # "object") =>
                /\ e.id \notin pubCalled
                /\ markCalls[e.id] = 0
                /\ \A l \in Loops : lastCall[l].id = e.id => lastCall[l].op = "skip"
                /\ IsPending(e.id)

\* relayer.Worker has skipped an event whose payload does not decode and a
\* later cycle has fetched it again.
UndecodableRefetched ==
    /\ workerKind = "relayer"
    /\ lastCall["poll"].op = "skip"
    /\ pc["poll"] = "proc"
    /\ Cur("poll").id = lastCall["poll"].id
    /\ Cur("poll").eventType = "user.deleted"

\* Dispatch d ended in the create path with the store refusing the insert
\* while it already holds an entity for the event's identity.
StoreRefusedDuplicate(d) ==
    /\ cpc[d] = "done"
    /\ cout[d] \in {"exists", "failed"}
    /\ EntitiesOf(cmsg[d].id) # {}

\* C23: when the create path of a dispatch ends with the store refusing the
\* entity because it already exists, the dispatch ends as a success and the
\* store holds exactly one entity for that identity.
AlreadyExistsIsSuccess ==
    \A d \in Dispatches :
       StoreRefusedDuplicate(d) =>
          /\ cout[d] = "exists"
          /\ Cardinality(EntitiesOf(cmsg[d].id)) = 1

\* The row a store holds for an id.
StoredUser(us, id) == CHOOSE x \in us : x.id = id

\* C24 (as stated): after every dispatch of an update event for an existing
\* user, the stored email equals the event's email.
UpdateAlwaysWins ==
    [][\A d \in WireDispatches :
         (UpdateUser(d) /\ GetByID(users, cmsg[d].id))
             => StoredUser(users', cmsg[d].id).email = cmsg[d].email]_vars

\* C24 (amended): an update dispatch for an existing user whose store write
\* succeeds leaves the stored email equal to the event's, one whose write
\* fails leaves the rows unchanged, and in both cases dispatching the same
\* event a second time on the resulting rows changes nothing.
IdempotentUpdate ==
    [][\A d \in WireDispatches :
         (UpdateUser(d) /\ GetByID(users, cmsg[d].id))
             => /\ cout'[d] = "updated"
                    => StoredUser(users', cmsg[d].id).email = cmsg[d].email
                /\ cout'[d] = "failed" => users' = users
                /\ LET again == [StoredUser(users', cmsg[d].id)
                                   EXCEPT !.email = cmsg[d].email] IN
                   RepoUpdate(storeKind, users', again).err = "nil"
                       => RepoUpdate(storeKind, users', again).users = users']_vars

\* An update event has rewritten the email of an existing user.
UpdateApplied ==
    \E d \in WireDispatches :
        /\ cpc[d] = "done" /\ cout[d] = "updated"
        /\ Route(craw[d]) = "update"
        /\ \E x \in users : x.id = craw[d].id /\ x.email = craw[d].email

\* Loop l is inside publishAndMark for the head of its queue.
Processing(l) == pc[l] # "idle" /\ queue[l] # <<>>

\* C25 (PushSpec): within one worker the polling loop and the push-queue loop
\* are never both processing (publishing or marking) the same outbox event.
LoopsOnIndependentRows ==
    ~( /\ Processing("poll") /\ Processing("push")
       /\ Cur("poll").id = Cur("push").id )

\* Loop l made a publisher or repository call, or skipped an event.
Called(l) == lastCall'[l] # lastCall[l] \/ pubCalled' # pubCalled
                 \/ markCalls' # markCalls

\* The processing of the event at the head of l's pass has returned.
HeadFinished(l) ==
    /\ lastCall'[l].id = Cur(l).id
    /\ \/ lastCall'[l].op \in {"skip", "mark"}
       \/ lastCall'[l].op = "publish" /\ ~lastCall'[l].ok
                                       /\ lastCall'[l].n = PublishBudget

\* C26 (PassSpec): within one polling pass the fetched rows are processed
\* sequentially in fetch order, one at a time.  The rows of the pass still to
\* be processed are queue["poll"], the fetch result minus the rows finished:
\* every call the loop makes is for the row at its head, the head is removed
\* only when its processing has returned and then the next row becomes the
\* head, no row is dropped or repeated, and a new fetch starts only once the
\* pass has no row left.
SequentialInFetchOrder ==
    [][ /\ Called("poll")
            => pc["poll"] # "idle" /\ lastCall'["poll"].id = Cur("poll").id
        /\ queue'["poll"] # queue["poll"]
            => \/ /\ pc["poll"] # "idle"
                  /\ queue'["poll"] = Tail(queue["poll"])
                  /\ HeadFinished("poll")
               \/ /\ pc["poll"] = "idle" /\ queue["poll"] = <<>>
                  /\ queue'["poll"] =
                       FetchPendingOutbox(storeKind, outbox, CtxUp, PassBatch).events
        /\ \A i, j \in DOMAIN queue'["poll"] :
               i < j => queue'["poll"][i].id # queue'["poll"][j].id
        /\ (pc'["poll"] = "idle") <=> (queue'["poll"] = <<>>) ]_vars

\* A pass holds two rows: the first has been published and is about to be
\* marked, the second waits behind it.
SecondRowWaits ==
    /\ pc["poll"] = "mark"
    /\ Len(queue["poll"]) = 2
    /\ Cur("poll").id \in pubOk
    /\ queue["poll"][2].id \notin pubCalled

\* C27 (KafkaSpec): when the broker write fails, Publish returns that same
\* error to its caller, never nil and never another error, and nothing is
\* added to the topic; the key of the message handed to the writer is the
\* event's partition key when the event exposes one and empty otherwise.
BrokerErrorReturnedUnchanged ==
    LET l == kafka.last IN
    (l.called /\ Marshals(l.event)) =>
        /\ l.writeErr # "nil" => l.ret = l.writeErr
        /\ l.writeErr = "nil" => l.ret = "nil"
        /\ l.event.kind \in {"*User", "*Task"} => l.msg.key = <<l.event.id>>
        /\ l.event.kind \in {"User", "IntegrationEvent"} => l.msg.key = <<>>
        /\ \A i \in DOMAIN kafka.topic :
               kafka.topic[i].key # <<>> => kafka.topic[i].value \in {"*User", "*Task"}

\* A keyed message is on the topic and the last Publish, of a keyed event,
\* failed at the broker.
BrokerRefusedKeyedEvent ==
    /\ kafka.last.called
    /\ kafka.last.writeErr = "timeout"
    /\ kafka.last.event.kind = "*User"
    /\ \E i \in DOMAIN kafka.topic : kafka.topic[i].key # <<>>

\* C28 (AdapterSpec): handlers run under a bounded per-message timeout, so a
\* stuck downstream call for one message does not block the receive loop for
\* ever: a message that waits behind a stuck handler is eventually received
\* and handed to the handler, unless the loop's context is cancelled.
StuckHandlerIsReleased ==
    \A m \in MessageIds :
        ( /\ adapter.pc = "handle" /\ adapter.stuck
          /\ adapter.inbox # <<>> /\ Head(adapter.inbox) = m )
            ~> (m \in adapter.handed \/ cancelled)

\* A handler ran into its deadline and a later message has been handled
\* after it, with the context never cancelled.
HandledAfterTimeout ==
    /\ ~cancelled
    /\ adapter.pc = "read"
    /\ \E f \in adapter.failed : \E m \in adapter.handed \ adapter.failed : m > f

\* C29 (CacheSpec): the cache refresh a read starts is detached from the
\* request.  After a GetUser / GetTaskByID cache miss that is served from the
\* repository the cache eventually holds the entity, whether or not the
\* request's context is cancelled after the call returned, as long as the
\* cache answers within the refresh's own timeout.
RefreshDetachedFromRequest ==
    ([]cache.up) =>
        \A r \in Requests :
            (cache.req[r].pc = "refresh") ~> (cache.req[r].id \in cache.held)

\* A request was served from the repository on a miss, its context was
\* cancelled, and its refresh has put the entity into the cache.
RefreshedAfterCancel ==
    \E r \in Requests :
        /\ cache.req[r].pc = "done"
        /\ cache.req[r].served /\ cache.req[r].ctxDone
        /\ cache.req[r].refreshed
        /\ cache.req[r].id \in cache.held

\* C30 (WiringSpec): Start returns to its caller while the worker's polling
\* goes on in the background, so main goes on to start the second worker
\* (in the wiring that has one) and then the HTTP server.
StartReturnsToWiring ==
    /\ (wiring.started = 1 /\ wiring.local) ~> (wiring.started = 2)
    /\ (wiring.started >= 1) ~> (wiring.pc = "serving")

\* A request that went through the retry loop and came back without a user.
ReturnedError(q) == q.pc = "done" /\ q.tries >= 1 /\ ~q.served

\* C31 (as stated): a repository read that finds nothing returns the last
\* error of its lookups, after at most getRetries of them.
RetryReturnsLastError ==
    \A r \in Requests :
        LET q == cache.req[r] IN
        /\ q.tries <= getRetries
        /\ ReturnedError(q) => q.ret = q.lastErr

\* C31 (amended): the retry helper calls its function at most getRetries
\* times and stops at the first success; without a success it returns the
\* last error after getRetries calls, unless it sees the context done in
\* the wait after a failed call, in which case it returns the context's
\* error instead.
RetryBoundedAndLastError ==
    \A r \in Requests :
        LET q == cache.req[r] IN
        /\ q.tries <= getRetries
        /\ q.ret = "nil" => q.pc \in {"refresh", "done"} /\ q.served
        /\ ReturnedError(q) =>
              \/ q.ret = q.lastErr /\ q.tries = getRetries
              \/ q.ret = "ctx" /\ q.ctxDone

\* A read of an id the repository does not hold came back with not-found
\* after three lookups.
NotFoundAfterThreeLookups ==
    \E r \in Requests :
        LET q == cache.req[r] IN
        /\ ReturnedError(q) /\ q.ret = "notfound" /\ q.tries = getRetries
        /\ ~GetByID(users, q.id)

\* C32 (WiringSpec): the merged registry holds exactly the union of the user
\* and the task domain registries once main has built it, and no later step
\* of main or of a relay worker adds, removes or changes an entry.
RegistryNeverMutated ==
    /\ [](wiring.pc \notin {"mergeUser", "mergeTask"}
              => wiring.registry = UserRegistry \cup TaskRegistry)
    /\ [][wiring.pc \notin {"mergeUser", "mergeTask"}
              => wiring'.registry = wiring.registry]_vars
    /\ [](wiring.registry \subseteq eventRegistry)

\* The worker has looked up a registered and an unregistered event type.
RegistryReadOnHitAndMiss ==
    /\ "user.created" \in wiring.looked
    /\ "unregistered.event" \in wiring.looked
    /\ wiring.registry = eventRegistry

\* The outbox holds event id as a pending row of a registered type whose
\* payload decodes into the registry's target.
PendingAndPublishable(id) ==
    \E i \in DOMAIN outbox :
        /\ outbox[i].id = id /\ ~outbox[i].processed
        /\ outbox[i].eventType \in eventRegistry
        /\ DecodesIntoTarget(outbox[i].eventType)

\* C33 (FairSpec): stuck events do not starve others.  If from some point on
\* the publisher and the store stay available, a pending event of a
\* registered type with a decodable payload is eventually published,
\* whatever older events that can never be processed the outbox holds.
StuckEventsDoNotStarve ==
    \A id \in EventIds :
        <>[](brokerUp /\ dbUp) => [](PendingAndPublishable(id) => <>(id \in pubOk))

\* The worker a loop belongs to publishes on one bus: outboxUserWorker
\* (loop "poll") on eventUserPublisher, outboxTaskWorker (loop "poll2") on
\* eventTaskPublisher.
PublisherOf(l) == IF l = "poll2" THEN "task" ELSE "user"

\* The domain of an event type.
DomainOf(eventType) == IF eventType \in TaskRegistry THEN "task" ELSE "user"

\* C34 (TwoSpec): with two workers on one outbox store and one registry but
\* different publishers, every event that ends up processed was published
\* successfully on the publisher of its own domain.  A user-domain event
\* can only have been published on the user bus by the user worker's loop,
\* so none is processed while that loop has made no call at all.
ProcessedOnOwnBus ==
    \A e \in stored :
        (e.id \in markedOk /\ DomainOf(e.eventType) = "user")
            => \E l \in Loops : /\ PublisherOf(l) = "user"
                                 /\ lastCall[l] # NoCall

\* The processing of the head of l's pass returned with a failure: a registry
\* miss or a decode error, the last Publish attempt failed, or
\* MarkOutboxProcessed failed.
HeadFailed(l) ==
    /\ pc[l] # "idle"
    /\ queue'[l] # queue[l]
    /\ \/ pc[l] = "proc"
       \/ pc[l] = "mark" /\ Cur(l).id \notin markedOk'

\* C35 (PassSpec): failure isolation inside a batch.  When the processing of
\* one event of a fetched batch fails (registry miss, decode error, publish
\* failure or mark failure), only that event leaves the pass: the rows fetched
\* after it all stay in the pass and the next of them is processed at once,
\* and a row waiting to be processed always has a step to take (a skip or a
\* Publish call), so the pass never ends with fetched rows left over.
FailureStaysInsideItsEvent ==
    /\ [][ HeadFailed("poll") =>
              /\ queue'["poll"] = Tail(queue["poll"])
              /\ Len(queue["poll"]) > 1 => pc'["poll"] = "proc" ]_vars
    /\ [](pc["poll"] = "proc" =>
              /\ queue["poll"] # <<>>
              /\ \/ Publishable("poll")
                 \/ Cur("poll").eventType \notin eventRegistry
                 \/ ~DecodesIntoTarget(Cur("poll").eventType))

\* The first row of a two-row pass failed (it was skipped, or its Publish or
\* its mark failed) and the second row has been published in the same pass.
LaterRowPublishedAfterFailure ==
    /\ pc["poll"] = "mark"
    /\ Len(queue["poll"]) = 1
    /\ Cur("poll").id \in pubOk
    /\ \E i, j \in DOMAIN outbox :
           /\ i < j
           /\ outbox[j].id = Cur("poll").id
           /\ ~outbox[i].processed
           /\ outbox[i].id \notin markedOk

\* C36 (FetchSpec): when FetchPendingOutbox returns an error the pass ends
\* there: no Publish and no MarkOutboxProcessed call is made, the outbox is
\* unchanged, and the loop is back at its select with no row in hand, so the
\* next timer tick fetches again.
FetchErrorEndsPassOnly ==
    /\ [][ (lastFetch' # lastFetch /\ lastFetch'.err) =>
              /\ UNCHANGED <<outbox, pubCalled, pubOk, markCalls, markedOk, lastCall>>
              /\ pc'["poll"] = "idle"
              /\ queue'["poll"] = <<>> ]_vars
    /\ []((lastFetch.err /\ pc["poll"] = "idle") => ENABLED FetchPass(PassBatch, TRUE))

\* A fetch failed while rows were pending, and the loop waits for its ticker.
FetchFailedWithRowsPending ==
    /\ lastFetch.err
    /\ lastFetch.pending # {}
    /\ pc["poll"] = "idle"
    /\ pubCalled # {}

\* C37 (WriteSpec): every transaction begun by UserRepoSQLite.Create, Update
\* or DeleteByID has been committed or rolled back when the method returns,
\* on every return path; none is left open.
NoTransactionLeftOpen ==
    (storeKind = "sqlite" /\ lastWrite.op # "none") => lastWrite.txEnd # "open"

\* C38 (CoherenceSpec): cache coherence across writes.  Once UpdateUser(u) and
\* then DeleteUser(u.ID) have both returned success and every background
\* cache task they started has finished, the cache holds no entry for that
\* user, whatever the order in which the tasks ran.
NoEntryAfterUpdateThenDelete ==
    \A id \in UserIds :
        (/\ cache.writes[id] = "deleted"
         /\ \A t \in cache.tasks : t.id # id
         /\ \A r \in Requests : cache.req[r].pc = "idle")
            => id \notin cache.held

\* C39 (BusSpec): for a subscriber of the in-memory bus whose buffer never
\* fills, the events are received in the order in which Publish was called
\* for them (events are numbered in Publish order; peak is the highest
\* number of events the buffer has held, recv the events taken from it).
ReceivedInPublishOrder ==
    \A j \in DOMAIN eventBus.subscribers :
        LET sub == eventBus.subscribers[j] IN
        sub.peak < sub.cap =>
            \A a, b \in DOMAIN sub.recv : a < b => sub.recv[a] < sub.recv[b]

\* C40 as stated (CoherenceSpec): for an update event whose entity is not in
\* the write-side store (neither when GetUser is called, nor at any repository
\* lookup it makes, nor when the update would run), the consumer makes no
\* UpdateUser call.
NoUpdateCallForMissingEntity ==
    ~( /\ cache.upd.called
       /\ cache.upd.absent
       /\ cache.req[ConsumerRequest].absent )

\* C40 (CoherenceSpec): an update event whose entity is not in the write-side
\* store changes nothing.  When GetUser returns an error (no cache entry and
\* no row: ErrUserNotFound) the consumer makes no UpdateUser call; when the
\* cache still answers for the id, UpdateUser is called and the repository
\* refuses it with ErrUserNotFound.  Either way the users table and the
\* outbox are unchanged, no entity is created and no cache task is started.
MissingEntityUpdateChangesNothing ==
    /\ [](cache.upd.called =>
             /\ cache.req[ConsumerRequest].served
             /\ cache.req[ConsumerRequest].ret = "nil")
    /\ [][ (cache'.upd # cache.upd /\ cache'.upd.absent) =>
              /\ cache'.upd.err = "notfound"
              /\ UNCHANGED <<users, outbox, stored>>
              /\ cache'.tasks = cache.tasks
              /\ cache'.held = cache.held ]_vars

\* The consumer handled an update event for a user that is not in the store
\* while the cache still held it: UpdateUser was called and refused, and no
\* such user has appeared.
StaleEntryUpdateRefused ==
    /\ cache.upd.called
    /\ cache.upd.absent
    /\ cache.upd.err = "notfound"
    /\ cache.req[ConsumerRequest].absent
    /\ cache.req[ConsumerRequest].tries = 0
    /\ ~GetByID(users, cache.req[ConsumerRequest].id)

====
